---------------------------- MODULE Spec2Model ----------------------------
(***************************************************************************)
(* A model of the OOTD closet application: its AI workflows                 *)
(*   - removeBackground   (src/src/ai/flows/remove-background.ts)          *)
(*   - tagClothingItem    (src/unnamed/part_002)                           *)
(*   - generateOutfitIdea (src/src/ai/flows/tag-categories.ts)             *)
(* its preferences provider                                                *)
(*   - UserPreferencesProvider (src/unnamed/part_000)                      *)
(* and its page                                                            *)
(*   - OutfitGeneratorPage     (src/src/app/page.tsx)                      *)
(* Every await of a workflow or handler is one step of its state machine;  *)
(* what the external providers, the stores and the user do is drawn        *)
(* nondeterministically.  Each part has a specification of its own, in     *)
(* which the other parts stand still.                                      *)
(***************************************************************************)
EXTENDS Integers, Sequences, FiniteSets, TLC

VARIABLES
    \* removeBackgroundFlow
    rbPc,         \* position in the flow
    rbEnvToken,   \* process.env.REPLICATE_API_TOKEN is set
    rbInput,      \* input.photoDataUri
    rbI,          \* loop counter i of the poll loop
    rbOutputUrl,  \* outputUrl
    rbNet,        \* network requests issued so far, per kind
    rbElapsed,    \* milliseconds slept in the poll loop
    rbLastPoll,   \* pollJson of the latest status request
    rbError,      \* message of the error thrown inside the try block
    rbOutcome,    \* "pending", "returned" or "raised"
    rbResult,     \* photoDataUri of the returned object
    \* tagClothingItem
    tagPc, tagEnvKey, tagText, tagNet, tagError, tagOutcome, tagResult,
    \* generateOutfitIdea
    goPc, goEnvKey, goInput, goWeather, goText, goNet, goError, goOutcome,
    goResult,
    \* UserPreferencesProvider
    upUser,        \* user of useAuth(): a uid, or "null" for a guest
    upAuthLoading, \* loading of useAuth()
    upDb,          \* db of '@/lib/firebase' is set
    upPreferences, \* state preferences
    upRendered,    \* preferences as the latest render handed it to the callbacks
    upLoading,     \* state loading
    upSubs,        \* onSnapshot listeners that are attached
    upCleanup,     \* the listener the cleanup of the latest effect detaches
    upSnaps,       \* snapshots raised for the listeners, not yet delivered
    upRemote,      \* the preferences document of every account
    upLocal,       \* localStorage.getItem('userPreferences')
    upWrites,      \* setDoc calls the store has not settled yet
    upCalls,       \* the calls of updateGender and updatePreferences so far
    upLog,         \* messages of console.error
    upRuns,        \* runs of the effect so far
    \* OutfitGeneratorPage
    pgLoading,            \* state loading
    pgError,              \* state error is set
    pgOutfitIdea,         \* state outfitIdea
    pgCurrentOutfitIndex, \* state currentOutfitIndex
    pgInspirationItems,   \* inspirationItems of useCloset()
    pgLocation,           \* state location: "null" or "set"
    pgLocationError,      \* state locationError is set
    pgTestingMode,        \* state testingMode
    pgGenerating,         \* calls of generateOutfitIdea that have not settled
    pgShowOnboarding,     \* state showOnboarding
    pgOnboardingStep,     \* state onboardingStep
    pgOnboardingPreview,  \* state onboardingPreview
    pgOnboardingLoading,  \* state onboardingLoading
    pgOnboardingError,    \* state onboardingError is set
    pgOnboardingComplete, \* sessionStorage holds 'onboardingComplete'
    pgGender,             \* preferences.gender is set
    pgResizing,           \* files processOnboardingFile is resizing
    pgPipelines,          \* runs of handleOnboardingSubmit in flight
    pgClosetItems         \* closetItems of useCloset()

rbVars == <<rbPc, rbEnvToken, rbInput, rbI, rbOutputUrl, rbNet, rbElapsed,
            rbLastPoll, rbError, rbOutcome, rbResult>>
tagVars == <<tagPc, tagEnvKey, tagText, tagNet, tagError, tagOutcome, tagResult>>
goVars == <<goPc, goEnvKey, goInput, goWeather, goText, goNet, goError,
            goOutcome, goResult>>
upVars == <<upUser, upAuthLoading, upDb, upPreferences, upRendered, upLoading,
            upSubs, upCleanup, upSnaps, upRemote, upLocal, upWrites, upCalls,
            upLog, upRuns>>
pgVars == <<pgLoading, pgError, pgOutfitIdea, pgCurrentOutfitIndex,
            pgInspirationItems, pgLocation, pgLocationError,
            pgTestingMode, pgGenerating, pgShowOnboarding, pgOnboardingStep,
            pgOnboardingPreview, pgOnboardingLoading, pgOnboardingError,
            pgOnboardingComplete, pgGender, pgResizing, pgPipelines,
            pgClosetItems>>
vars == <<rbVars, tagVars, goVars, upVars, pgVars>>

-----------------------------------------------------------------------------
(* Bounds of the model *)

MaxBytes == 9          \* largest image the provider hands back, in bytes
MaxInputBytes == 2     \* largest input image, in bytes
MaxTagReplyLen == 4    \* longest reply of the tagging model, in tokens
MaxOutfitReplyLen == 3 \* longest reply of the outfit model, in tokens
MaxCatalog == 3        \* most items of a catalog snapshot

-----------------------------------------------------------------------------
(* JavaScript values and the text of a model reply *)

\* A JSON value as JSON.parse builds it: its type t, its characters s (of a
\* string, a number or a boolean) and its elements or members a; a member of
\* an object carries its key k.  A string is a sequence of pieces, the
\* piece "#" being that character.
Node(t, k, s, a) == [t |-> t, k |-> k, s |-> s, a |-> a]
Str(s) == Node("string", "", s, <<>>)
Num(n) == Node("number", "", <<n>>, <<>>)
True == Node("boolean", "", <<"true">>, <<>>)
False == Node("boolean", "", <<"false">>, <<>>)
Null == Node("null", "", <<>>, <<>>)
Undefined == Node("undefined", "", <<>>, <<>>)
Arr(a) == Node("array", "", <<>>, a)
Obj(a) == Node("object", "", <<>>, a)
Member(k, v) == [v EXCEPT !.k = k]

\* The reply of a model is text.  Its tokens: an opening brace, a closing
\* brace, a stretch of prose holding neither, or one well-formed member
\* ("key": value) of a JSON object.
LBrace == Node("{", "", <<>>, <<>>)
RBrace == Node("}", "", <<>>, <<>>)
Prose == Node("prose", "", <<>>, <<>>)
IsMember(tok) == tok.t \notin {"{", "}", "prose"}

Texts(tokens, maxLen) == UNION { [1..n -> tokens] : n \in 0..maxLen }

\* typeof v
TypeOf(v) == IF v.t \in {"null", "array", "object"} THEN "object" ELSE v.t
\* Array.isArray(v)
IsArray(v) == v.t = "array"
\* Boolean(v): false for undefined, null, '', 0 and false
JsTruthy(v) ==
    CASE v.t = "string" -> v.s # <<>>
      [] v.t = "number" -> v.s # <<"0">>
      [] v.t = "boolean" -> v.s = <<"true">>
      [] v.t \in {"null", "undefined"} -> FALSE
      [] OTHER -> TRUE
\* v || d
OrElse(v, d) == IF JsTruthy(v) THEN v ELSE d
\* s.startsWith('#')
StartsWithHash(v) == Len(v.s) > 0 /\ v.s[1] = "#"

\* text.match(/\{[\s\S]*\}/): from the first opening brace to the last
\* closing brace after it; <<>> stands for null (no match).
JsonMatch(text) ==
    LET opens == { i \in 1..Len(text) : text[i] = LBrace }
        closes == { j \in 1..Len(text) : text[j] = RBrace }
    IN  IF opens = {} \/ closes = {} THEN <<>>
        ELSE LET first == CHOOSE i \in opens : \A o \in opens : i <= o
                 last == CHOOSE j \in closes : \A c \in closes : c <= j
             IN  IF first < last THEN SubSeq(text, first, last) ELSE <<>>

\* Whether JSON.parse accepts the matched text: one object, holding members
\* only.
JsonParses(m) ==
    /\ Len(m) >= 2
    /\ m[1] = LBrace
    /\ m[Len(m)] = RBrace
    /\ \A i \in 2..(Len(m) - 1) : IsMember(m[i])
\* JSON.parse(m), for a text it accepts
JsonParse(m) == Obj(SubSeq(m, 2, Len(m) - 1))

\* parsed.key: the value of the last member with that key, or undefined
Get(parsed, key) ==
    LET at == { i \in 1..Len(parsed.a) : parsed.a[i].k = key }
    IN  IF at = {} THEN Undefined
        ELSE LET last == CHOOSE i \in at : \A j \in at : j <= i
             IN  [parsed.a[last] EXCEPT !.k = ""]

-----------------------------------------------------------------------------
(* removeBackground *)

\* for (let i = 0; i < 20; i++)
MaxPollAttempts == 20
\* setTimeout(res, 1500)
PollIntervalMs == 1500
\* The byte-size ceiling of the returned payload that the specification
\* documents; the flow itself holds no such number.
SizeCeiling == 30

\* A data URI: data:image/<mime>;base64,<bytes encoded>
DataUri(mime, content, bytes) == [mime |-> mime, content |-> content, bytes |-> bytes]
NoUri == DataUri("none", "none", 0)

MimeLen(mime) == CASE mime = "png" -> 3 [] mime = "jpeg" -> 4 [] mime = "webp" -> 4
                   [] OTHER -> 0
\* Length of the encoded payload: the prefix "data:image/" mime ";base64," and
\* four characters for every three bytes.
EncodedLength(uri) == 11 + MimeLen(uri.mime) + 8 + 4 * ((uri.bytes + 2) \div 3)

RbInputs == { DataUri(m, "original", b) : m \in {"png", "webp"}, b \in 1..MaxInputBytes }

\* What a status request can answer: { status?, output? }
PollStatuses == {"undefined", "starting", "processing", "succeeded", "failed", "canceled"}
\* output: absent, '' , a URL, [URL] or []
PollOutputs == {"undefined", "emptystring", "url", "array", "emptyarray"}
PollResponses == [status : PollStatuses, output : PollOutputs]
Truthy(output) == output \notin {"undefined", "emptystring", "null"}

\* The body of the poll loop after pollRes.json(): break, throw or sleep.
PollStepFailedIgnored(pollJson) ==
    IF pollJson.status = "succeeded" /\ Truthy(pollJson.output) THEN "break"
    ELSE "sleep"
PollStep(pollJson) ==
    IF pollJson.status = "succeeded" /\ Truthy(pollJson.output) THEN "break"
    ELSE IF pollJson.status = "failed" THEN "throw"
    ELSE "sleep"

\* i < 20
PollLoopContinuesOffByOne(i) == i <= MaxPollAttempts
PollLoopContinues(i) == i < MaxPollAttempts

NoPoll == [status |-> "none", output |-> "none"]
PollThrew == [status |-> "threw", output |-> "none"]

NoNet == [upload |-> 0, submit |-> 0, poll |-> 0, download |-> 0]

RbInit ==
    /\ rbPc = "start"
    /\ rbEnvToken \in BOOLEAN
    /\ rbInput \in RbInputs
    /\ rbI = 0
    /\ rbOutputUrl = "null"
    /\ rbNet = NoNet
    /\ rbElapsed = 0
    /\ rbLastPoll = NoPoll
    /\ rbError = "none"
    /\ rbOutcome = "pending"
    /\ rbResult = NoUri

RbIdle ==
    /\ rbPc = "idle"
    /\ rbEnvToken = FALSE
    /\ rbInput = NoUri
    /\ rbI = 0
    /\ rbOutputUrl = "null"
    /\ rbNet = NoNet
    /\ rbElapsed = 0
    /\ rbLastPoll = NoPoll
    /\ rbError = "none"
    /\ rbOutcome = "pending"
    /\ rbResult = NoUri

\* removeBackground touches no state of the other workflows.
RbFrame == UNCHANGED <<tagVars, goVars, upVars, pgVars>>

\* throw new Error(msg) inside the try block: control moves to the catch.
RbThrow(msg) ==
    /\ rbPc' = "catch"
    /\ rbError' = msg

\* const apiToken = process.env.REPLICATE_API_TOKEN; if (!apiToken) throw
RbCheckTokenNotChecked ==
    /\ rbPc = "start"
    /\ RbFrame
    /\ rbPc' = "upload"
    /\ UNCHANGED <<rbEnvToken, rbInput, rbI, rbOutputUrl, rbNet, rbElapsed,
                   rbLastPoll, rbError, rbOutcome, rbResult>>
RbCheckToken ==
    /\ rbPc = "start"
    /\ RbFrame
    /\ IF ~rbEnvToken
       THEN RbThrow("REPLICATE_API_TOKEN is not set in the environment.")
       ELSE rbPc' = "upload" /\ UNCHANGED rbError
    /\ UNCHANGED <<rbEnvToken, rbInput, rbI, rbOutputUrl, rbNet, rbElapsed,
                   rbLastPoll, rbOutcome, rbResult>>

\* getAdminStorage(), bucket.file(filename).save(buffer, ...): the inner
\* try/catch turns any failure into 'Failed to upload image to storage ...'.
RbUpload ==
    /\ rbPc = "upload"
    /\ RbFrame
    /\ rbNet' = [rbNet EXCEPT !.upload = @ + 1]
    /\ \E saved \in BOOLEAN :
         IF saved
         THEN rbPc' = "submit" /\ UNCHANGED rbError
         ELSE RbThrow("Failed to upload image to storage for background removal.")
    /\ UNCHANGED <<rbEnvToken, rbInput, rbI, rbOutputUrl, rbElapsed, rbLastPoll,
                   rbOutcome, rbResult>>

\* fetch('https://api.replicate.com/v1/predictions'), response.json(),
\* if (!json || !json.urls || !json.urls.get) throw
RbSubmit ==
    /\ rbPc = "submit"
    /\ RbFrame
    /\ rbNet' = [rbNet EXCEPT !.submit = @ + 1]
    /\ \E answer \in {"threw", "null", "nourls", "noget", "get"} :
         CASE answer = "threw" ->
                RbThrow("request failed") /\ UNCHANGED <<rbI, rbOutputUrl>>
           [] answer \in {"null", "nourls", "noget"} ->
                /\ RbThrow("Failed to start background removal prediction.")
                /\ UNCHANGED <<rbI, rbOutputUrl>>
           [] OTHER ->
                \* let resultUrl = json.urls.get; let outputUrl = null; i = 0
                /\ rbOutputUrl' = "null"
                /\ rbI' = 0
                /\ rbPc' = IF PollLoopContinues(0) THEN "poll" ELSE "afterloop"
                /\ UNCHANGED rbError
    /\ UNCHANGED <<rbEnvToken, rbInput, rbElapsed, rbLastPoll, rbOutcome, rbResult>>

\* One status request of the loop: fetch(resultUrl), pollRes.json(), the two
\* tests on pollJson.
RbPoll ==
    /\ rbPc = "poll"
    /\ RbFrame
    /\ rbNet' = [rbNet EXCEPT !.poll = @ + 1]
    /\ \/ \* the request or the decoding of its body throws
          /\ rbLastPoll' = PollThrew
          /\ RbThrow("request failed")
          /\ UNCHANGED rbOutputUrl
       \/ \E pollJson \in PollResponses :
            /\ rbLastPoll' = pollJson
            /\ CASE PollStep(pollJson) = "break" ->
                      /\ rbOutputUrl' = pollJson.output
                      /\ rbPc' = "afterloop"
                      /\ UNCHANGED rbError
                 [] PollStep(pollJson) = "throw" ->
                      /\ RbThrow("Background removal failed.")
                      /\ UNCHANGED rbOutputUrl
                 [] OTHER ->
                      /\ rbPc' = "sleep"
                      /\ UNCHANGED <<rbOutputUrl, rbError>>
    /\ UNCHANGED <<rbEnvToken, rbInput, rbI, rbElapsed, rbOutcome, rbResult>>

\* await new Promise(res => setTimeout(res, 1500)); i++; i < 20
RbSleep ==
    /\ rbPc = "sleep"
    /\ RbFrame
    /\ rbElapsed' = rbElapsed + PollIntervalMs
    /\ rbI' = rbI + 1
    /\ rbPc' = IF PollLoopContinues(rbI + 1) THEN "poll" ELSE "afterloop"
    /\ UNCHANGED <<rbEnvToken, rbInput, rbOutputUrl, rbNet, rbLastPoll, rbError,
                   rbOutcome, rbResult>>

\* if (!outputUrl) throw new Error('Background removal timed out.')
RbAfterLoop ==
    /\ rbPc = "afterloop"
    /\ RbFrame
    /\ IF ~Truthy(rbOutputUrl)
       THEN RbThrow("Background removal timed out.")
       ELSE rbPc' = "download" /\ UNCHANGED rbError
    /\ UNCHANGED <<rbEnvToken, rbInput, rbI, rbOutputUrl, rbNet, rbElapsed,
                   rbLastPoll, rbOutcome, rbResult>>

\* fetch(Array.isArray(outputUrl) ? outputUrl[0] : outputUrl), imgRes.buffer(),
\* return { photoDataUri: `data:image/png;base64,${...}` }
RbDownload ==
    /\ rbPc = "download"
    /\ RbFrame
    /\ rbNet' = [rbNet EXCEPT !.download = @ + 1]
    /\ \/ \* [][0] is undefined and fetch(undefined) throws; so may any fetch
          /\ RbThrow("request failed")
          /\ UNCHANGED <<rbOutcome, rbResult>>
       \/ /\ rbOutputUrl # "emptyarray"
          /\ \E content \in {"original", "cutout"}, bytes \in 0..MaxBytes :
               rbResult' = DataUri("png", content, bytes)
          /\ rbOutcome' = "returned"
          /\ rbPc' = "done"
          /\ UNCHANGED rbError
    /\ UNCHANGED <<rbEnvToken, rbInput, rbI, rbOutputUrl, rbElapsed, rbLastPoll>>

\* catch (error) { console.error(...); return { photoDataUri: input.photoDataUri } }
RbCatchRethrows ==
    /\ rbPc = "catch"
    /\ RbFrame
    /\ rbOutcome' = "raised"
    /\ rbPc' = "done"
    /\ UNCHANGED <<rbEnvToken, rbInput, rbI, rbOutputUrl, rbNet, rbElapsed,
                   rbLastPoll, rbError, rbResult>>
RbCatch ==
    /\ rbPc = "catch"
    /\ RbFrame
    /\ rbResult' = rbInput
    /\ rbOutcome' = "returned"
    /\ rbPc' = "done"
    /\ UNCHANGED <<rbEnvToken, rbInput, rbI, rbOutputUrl, rbNet, rbElapsed,
                   rbLastPoll, rbError>>

NextRemoveBackground ==
    \/ RbCheckToken
    \/ RbUpload
    \/ RbSubmit
    \/ RbPoll
    \/ RbSleep
    \/ RbAfterLoop
    \/ RbDownload
    \/ RbCatch

-----------------------------------------------------------------------------
(* Placeholders of the other workflows while removeBackground runs *)

\* The object tagClothingItem returns, before it has returned.
NoTagResult ==
    [category |-> Undefined, subCategory |-> Undefined, tags |-> Undefined,
     dominantColors |-> Undefined, hasPattern |-> FALSE,
     patternDescription |-> Undefined]

TagIdle ==
    /\ tagPc = "idle"
    /\ tagEnvKey = FALSE
    /\ tagText = <<>>
    /\ tagNet = 0
    /\ tagError = "none"
    /\ tagOutcome = "pending"
    /\ tagResult = NoTagResult

\* An optional number of the input: absent, or present with its value.
Absent == [given |-> FALSE, v |-> 0]
Number(n) == [given |-> TRUE, v |-> n]
\* An optional catalog snapshot (closetItems).
NoCatalog == [given |-> FALSE, items |-> <<>>]
Catalog(items) == [given |-> TRUE, items |-> items]

NoGoInput == [latitude |-> Absent, longitude |-> Absent, closetItems |-> NoCatalog]
NoGoNet == [weather |-> 0, model |-> 0]
\* The suggestion generateOutfitIdea returns, before it has returned.
NoGoResult ==
    [outfitDescription |-> Undefined, itemIds |-> Undefined,
     missingItems |-> Undefined, weatherWarnings |-> Undefined,
     alternativeOutfits |-> Undefined]

GoIdle ==
    /\ goPc = "idle"
    /\ goEnvKey = FALSE
    /\ goInput = NoGoInput
    /\ goWeather = "null"
    /\ goText = <<>>
    /\ goNet = NoGoNet
    /\ goError = "none"
    /\ goOutcome = "pending"
    /\ goResult = NoGoResult

\* A field of a preferences object that is undefined (or not there).
Unset == <<"undefined">>
\* A key a Partial<UserPreferences> does not hold.
Missing == <<"absent">>
Preferences(gender, style, size, color, occasion) ==
    [gender |-> gender, stylePreferences |-> style, sizePreferences |-> size,
     colorPreferences |-> color, occasionPreferences |-> occasion]
\* const defaultPreferences
defaultPreferences == Preferences(Unset, <<>>, <<>>, <<>>, <<>>)

\* A user of useAuth(): null for a guest.
NoUser == "null"
Users == {"u1", "u2"}
\* A document of the store: data() of one that does not exist is undefined.
NoDoc == [exists |-> FALSE, data |-> Preferences(Unset, Unset, Unset, Unset, Unset)]
Doc(data) == [exists |-> TRUE, data |-> data]
\* A listener: the account it listens to and the effect run that attached it.
NoSub == [uid |-> NoUser, run |-> 0]
\* localStorage holds no 'userPreferences'.
NoStored == [kind |-> "missing", members |-> {}]

\* The provider before it is mounted.
UpIdle ==
    /\ upUser = NoUser
    /\ upAuthLoading = TRUE
    /\ upDb = FALSE
    /\ upPreferences = defaultPreferences
    /\ upRendered = defaultPreferences
    /\ upLoading = TRUE
    /\ upSubs = {}
    /\ upCleanup = NoSub
    /\ upSnaps = <<>>
    /\ upRemote = [u \in Users |-> NoDoc]
    /\ upLocal = NoStored
    /\ upWrites = <<>>
    /\ upCalls = <<>>
    /\ upLog = {}
    /\ upRuns = 0

\* An image of the onboarding dialog: the file it was made from and
\* whether its background has been removed.
Image(file, cutout) == [file |-> file, cutout |-> cutout]
\* onboardingPreview === null
NoImage == Image("null", FALSE)

\* itemIds of an outfit: an array of identifiers, or undefined.
IdArray(ids) == [given |-> TRUE, ids |-> ids]
NoIdArray == [given |-> FALSE, ids |-> <<>>]
\* An outfit, the primary suggestion or an entry of alternativeOutfits; null.
Outfit(itemIds) == [isNull |-> FALSE, itemIds |-> itemIds]
NoOutfit == [isNull |-> TRUE, itemIds |-> NoIdArray]
\* A GenerateOutfitIdeaOutput as the page reads it; null.
OutfitIdea(itemIds, alternativeOutfits) ==
    [isNull |-> FALSE, itemIds |-> itemIds, alternativeOutfits |-> alternativeOutfits]
NoOutfitIdea == [isNull |-> TRUE, itemIds |-> NoIdArray, alternativeOutfits |-> <<>>]

\* useState(...) of the page: what its first render holds.
PgInit ==
    /\ pgLoading = FALSE
    /\ pgError = FALSE
    /\ pgOutfitIdea = NoOutfitIdea
    /\ pgCurrentOutfitIndex = 0
    /\ pgInspirationItems = <<>>
    /\ pgLocation = "null"
    /\ pgLocationError = FALSE
    /\ pgTestingMode = FALSE
    /\ pgGenerating = 0
    /\ pgShowOnboarding = FALSE
    /\ pgOnboardingStep = 0
    /\ pgOnboardingPreview = NoImage
    /\ pgOnboardingLoading = FALSE
    /\ pgOnboardingError = FALSE
    /\ pgOnboardingComplete = FALSE
    /\ pgGender = FALSE
    /\ pgResizing = <<>>
    /\ pgPipelines = <<>>
    /\ pgClosetItems = <<>>
\* The page while a workflow or the provider is looked at alone.
PgIdle == PgInit

InitRemoveBackground == RbInit /\ TagIdle /\ GoIdle /\ UpIdle /\ PgIdle
SpecRemoveBackground == InitRemoveBackground /\ [][NextRemoveBackground]_vars

-----------------------------------------------------------------------------
(* Properties of removeBackground *)

RbDone == rbPc = "done"
RbReturnedInput == rbOutcome = "returned" /\ rbResult = rbInput

\* C1: removeBackground never raises to its caller, and once any step has
\* failed (an error was thrown inside the flow) the call ends by returning an
\* object whose photoDataUri is exactly the input photoDataUri.
C1_NeverRaisesReturnsInput ==
    /\ rbOutcome # "raised"
    /\ (RbDone => rbOutcome = "returned")
    /\ (RbDone /\ rbError # "none" => RbReturnedInput)
    /\ (rbPc = "catch" => rbError # "none")

\* A call whose last step, the download of the result, failed.
C1_Witness ==
    /\ RbDone
    /\ rbNet.download = 1
    /\ rbError = "request failed"
    /\ RbReturnedInput

\* A status response that is neither 'succeeded' with an output nor 'failed'.
NotTerminal(pollJson) ==
    /\ pollJson.status \in PollStatuses
    /\ pollJson.status # "failed"
    /\ ~(pollJson.status = "succeeded" /\ pollJson.output \in {"url", "array", "emptyarray"})

\* C2: while every status response is non-terminal the loop goes on until
\* exactly 20 status requests were issued, each followed by a 1.5 s wait; it
\* then stops, the flow fails with the time-out error and the original input
\* is returned.
C2_PollTimeout ==
    /\ rbNet.poll <= MaxPollAttempts
    /\ rbElapsed = rbI * PollIntervalMs
    /\ (NotTerminal(rbLastPoll) =>
          /\ rbPc \in {"sleep", "poll", "afterloop", "catch", "done"}
          /\ (rbPc = "sleep" => rbI = rbNet.poll - 1)
          /\ (rbPc # "sleep" => rbI = rbNet.poll)
          /\ (rbPc = "poll" => rbNet.poll < MaxPollAttempts)
          /\ (rbPc \in {"afterloop", "catch", "done"} =>
                /\ rbNet.poll = MaxPollAttempts
                /\ rbElapsed = MaxPollAttempts * PollIntervalMs)
          /\ (rbPc \in {"catch", "done"} => rbError = "Background removal timed out.")
          /\ (RbDone => RbReturnedInput))

\* A call that timed out after 20 status requests and 30 s of waiting.
C2_Witness ==
    /\ RbDone
    /\ NotTerminal(rbLastPoll)
    /\ rbNet.poll = 20
    /\ rbElapsed = 30000
    /\ rbError = "Background removal timed out."
    /\ RbReturnedInput

\* C3: a status response 'failed' ends the polling at that response (the flow
\* is in its catch or has returned, as after a time-out; it never goes back to
\* sleeping or polling) and the call returns the original input.
C3_FailedLikeTimeout ==
    rbLastPoll.status = "failed" =>
        /\ rbPc \in {"catch", "done"}
        /\ rbError = "Background removal failed."
        /\ rbOutputUrl = "null"
        /\ (RbDone => RbReturnedInput)

\* A call that ended on a 'failed' status at its third status request.
C3_Witness ==
    /\ RbDone
    /\ rbLastPoll.status = "failed"
    /\ rbNet.poll = 3
    /\ rbNet.download = 0
    /\ RbReturnedInput

\* C4: an image returned by removeBackground that differs from the input has
\* an encoded payload no longer than the size ceiling.
C4_ResultWithinCeiling ==
    RbDone /\ rbOutcome = "returned" /\ rbResult # rbInput =>
        EncodedLength(rbResult) <= SizeCeiling

-----------------------------------------------------------------------------
(* tagClothingItem *)

\* Members a reply of the tagging model may hold: well-typed ones and ones
\* of another type than the prompt asks for.
TagMembers ==
    { Member("category", Str(<<"top">>)),
      Member("category", Num("42")),
      Member("subCategory", Str(<<>>)),
      Member("tags", Arr(<<Str(<<"casual">>), Num("7")>>)),
      Member("tags", Str(<<"casual">>)),
      Member("dominantColors", Arr(<<Str(<<"#", "000080">>), Str(<<"navy">>), Num("3")>>)),
      Member("hasPattern", Str(<<"no">>)),
      Member("patternDescription", Obj(<<>>)) }
TagTokens == {LBrace, RBrace, Prose} \cup TagMembers
TagReplies == Texts(TagTokens, MaxTagReplyLen)

\* Fallback response
TagFallback ==
    [category |-> Str(<<"unknown">>), subCategory |-> Str(<<"unknown">>),
     tags |-> Arr(<<>>), dominantColors |-> Arr(<<>>), hasPattern |-> FALSE,
     patternDescription |-> Str(<<>>)]

\* const validatedResult = { category: parsed.category || 'unknown', ... }
validatedResult(parsed) ==
    [category |-> OrElse(Get(parsed, "category"), Str(<<"unknown">>)),
     subCategory |-> OrElse(Get(parsed, "subCategory"), Str(<<"unknown">>)),
     tags |->
        IF IsArray(Get(parsed, "tags"))
        THEN Arr(SelectSeq(Get(parsed, "tags").a, LAMBDA tag : TypeOf(tag) = "string"))
        ELSE Arr(<<>>),
     dominantColors |->
        IF IsArray(Get(parsed, "dominantColors"))
        THEN Arr(SelectSeq(Get(parsed, "dominantColors").a,
                           LAMBDA color : TypeOf(color) = "string" /\ StartsWithHash(color)))
        ELSE Arr(<<>>),
     hasPattern |-> JsTruthy(Get(parsed, "hasPattern")),
     patternDescription |-> OrElse(Get(parsed, "patternDescription"), Str(<<>>))]

TagInit ==
    /\ tagPc = "start"
    /\ tagEnvKey \in BOOLEAN
    /\ tagText = <<>>
    /\ tagNet = 0
    /\ tagError = "none"
    /\ tagOutcome = "pending"
    /\ tagResult = NoTagResult

\* tagClothingItem touches no state of the other workflows.
TagFrame == UNCHANGED <<rbVars, goVars, upVars, pgVars>>

\* throw inside the try block: control moves to the catch.
TagThrow(msg) ==
    /\ tagPc' = "catch"
    /\ tagError' = msg

\* if (!process.env.GEMINI_API_KEY) throw new Error(...): before the try
TagCheckKeyInsideTry ==
    /\ tagPc = "start"
    /\ TagFrame
    /\ IF ~tagEnvKey
       THEN TagThrow("No Gemini API key found.")
       ELSE tagPc' = "request" /\ UNCHANGED tagError
    /\ UNCHANGED <<tagEnvKey, tagText, tagNet, tagOutcome, tagResult>>
TagCheckKey ==
    /\ tagPc = "start"
    /\ TagFrame
    /\ IF ~tagEnvKey
       THEN /\ tagError' = "No Gemini API key found."
            /\ tagOutcome' = "raised"
            /\ tagPc' = "done"
       ELSE /\ tagPc' = "request"
            /\ UNCHANGED <<tagError, tagOutcome>>
    /\ UNCHANGED <<tagEnvKey, tagText, tagNet, tagResult>>

\* model.generateContent([prompt, photoDataUri]), result.response,
\* response.text()
TagRequest ==
    /\ tagPc = "request"
    /\ TagFrame
    /\ tagNet' = tagNet + 1
    /\ \/ /\ TagThrow("request failed")
          /\ UNCHANGED tagText
       \/ \E text \in TagReplies :
            /\ tagText' = text
            /\ tagPc' = "parse"
            /\ UNCHANGED tagError
    /\ UNCHANGED <<tagEnvKey, tagOutcome, tagResult>>

\* text.match, JSON.parse, validatedResult, return
TagParse ==
    /\ tagPc = "parse"
    /\ TagFrame
    /\ LET jsonMatch == JsonMatch(tagText)
       IN  IF jsonMatch = <<>>
           THEN /\ TagThrow("Failed to parse AI response as JSON")
                /\ UNCHANGED <<tagOutcome, tagResult>>
           ELSE IF ~JsonParses(jsonMatch)
           THEN /\ TagThrow("Invalid JSON response from AI")
                /\ UNCHANGED <<tagOutcome, tagResult>>
           ELSE /\ tagResult' = validatedResult(JsonParse(jsonMatch))
                /\ tagOutcome' = "returned"
                /\ tagPc' = "done"
                /\ UNCHANGED tagError
    /\ UNCHANGED <<tagEnvKey, tagText, tagNet>>

\* catch (error) { console.error(...); return { category: 'unknown', ... } }
TagCatchRethrows ==
    /\ tagPc = "catch"
    /\ TagFrame
    /\ tagOutcome' = "raised"
    /\ tagPc' = "done"
    /\ UNCHANGED <<tagEnvKey, tagText, tagNet, tagError, tagResult>>
TagCatch ==
    /\ tagPc = "catch"
    /\ TagFrame
    /\ tagResult' = TagFallback
    /\ tagOutcome' = "returned"
    /\ tagPc' = "done"
    /\ UNCHANGED <<tagEnvKey, tagText, tagNet, tagError>>

NextTag ==
    \/ TagCheckKey
    \/ TagRequest
    \/ TagParse
    \/ TagCatch

InitTag == RbIdle /\ TagInit /\ GoIdle /\ UpIdle /\ PgIdle
SpecTag == InitTag /\ [][NextTag]_vars

-----------------------------------------------------------------------------
(* Properties of tagClothingItem *)

TagDone == tagPc = "done"
TagReturned == TagDone /\ tagOutcome = "returned"
IsString(v) == v.t = "string"
AllStrings(v) == IsArray(v) /\ \A i \in 1..Len(v.a) : IsString(v.a[i])

\* C5: the object tagClothingItem returns has category, subCategory and
\* patternDescription strings, hasPattern a boolean, tags an array of strings
\* and dominantColors an array of strings that begin with '#'.
C5_ResultWellTyped ==
    TagReturned =>
        /\ IsString(tagResult.category)
        /\ IsString(tagResult.subCategory)
        /\ IsString(tagResult.patternDescription)
        /\ tagResult.hasPattern \in BOOLEAN
        /\ AllStrings(tagResult.tags)
        /\ AllStrings(tagResult.dominantColors)
        /\ \A i \in 1..Len(tagResult.dominantColors.a) :
              StartsWithHash(tagResult.dominantColors.a[i])

\* The reply holds no brace-delimited object, or one JSON.parse rejects.
NoJsonObject(text) ==
    \/ ~\E i, j \in 1..Len(text) : i < j /\ text[i] = LBrace /\ text[j] = RBrace
    \/ ~JsonParses(JsonMatch(text))

\* C6: for a reply with no brace-delimited object, or with one that does not
\* parse as JSON, tagClothingItem returns exactly the fixed fallback object.
C6_MalformedGivesFallback ==
    /\ (tagPc \in {"catch", "done"} /\ tagNet = 1 /\ tagError # "request failed"
          /\ NoJsonObject(tagText)
        => tagError \in {"Failed to parse AI response as JSON",
                         "Invalid JSON response from AI"})
    /\ (TagDone /\ tagNet = 1 /\ tagError # "request failed" /\ NoJsonObject(tagText)
        => tagOutcome = "returned" /\ tagResult = TagFallback)

\* A reply whose first '{' and last '}' enclose prose: matched, not parsed.
C6_Witness ==
    /\ TagReturned
    /\ tagText = <<LBrace, Prose, RBrace>>
    /\ tagError = "Invalid JSON response from AI"
    /\ tagResult = TagFallback

\* C7 as stated: without GEMINI_API_KEY tagClothingItem returns the fixed
\* 'unknown' classification and propagates no error.
C7_MissingKeyGivesFallback ==
    TagDone /\ ~tagEnvKey => tagOutcome = "returned" /\ tagResult = TagFallback

\* C7 amended: without GEMINI_API_KEY tagClothingItem raises an error to its
\* caller, returns no classification and issues no model request; with the
\* key present every failure after the check returns the fixed fallback.
C7_MissingKeyRaises ==
    /\ (~tagEnvKey /\ tagPc # "start" =>
          /\ TagDone
          /\ tagOutcome = "raised"
          /\ tagResult = NoTagResult
          /\ tagNet = 0)
    /\ (tagEnvKey /\ TagDone =>
          /\ tagOutcome = "returned"
          /\ (tagError # "none" => tagResult = TagFallback))

\* A call made without the key, ended by the error.
C7_Witness ==
    /\ TagDone
    /\ ~tagEnvKey
    /\ tagOutcome = "raised"
    /\ tagError = "No Gemini API key found."

-----------------------------------------------------------------------------
(* generateOutfitIdea *)

ItemIds == {"a", "b", "c"}
\* A catalog item as the page sends it (the image removed); the prompt lists
\* its fields, the fallback reads its id.
ClothingItem(id) == [id |-> id]
\* Catalog snapshots: items with distinct identifiers, in any order.
Catalogs ==
    { Catalog(items) : items \in
        { c \in UNION { [1..n -> { ClothingItem(id) : id \in ItemIds }] : n \in 0..MaxCatalog } :
            \A i, j \in 1..Len(c) : i # j => c[i] # c[j] } }
\* Coordinates: none, a latitude of 0, both non-zero, a latitude alone.
Coordinates ==
    { <<Absent, Absent>>, <<Number(0), Number(-122)>>, <<Number(37), Number(-122)>>,
      <<Number(37), Absent>> }
GoInputs ==
    { [latitude |-> c[1], longitude |-> c[2], closetItems |-> cat] :
        c \in Coordinates, cat \in {NoCatalog} \cup Catalogs }

\* Members a reply of the outfit model may hold.
OutfitMembers ==
    { Member("outfitDescription", Str(<<"linen and denim">>)),
      Member("itemIds", Arr(<<Str(<<"b">>), Str(<<"zz">>)>>)),
      Member("itemIds", Str(<<"a">>)),
      Member("weatherWarnings", Arr(<<Str(<<"rain">>)>>)),
      Member("alternativeOutfits",
             Arr(<<Obj(<<Member("itemIds", Arr(<<Str(<<"zz">>)>>))>>)>>)) }
OutfitTokens == {LBrace, RBrace, Prose} \cup OutfitMembers
OutfitReplies == Texts(OutfitTokens, MaxOutfitReplyLen)

\* input.latitude && input.longitude
HasCoordinates(input) ==
    /\ input.latitude.given /\ input.latitude.v # 0
    /\ input.longitude.given /\ input.longitude.v # 0

\* return { outfitDescription: parsed.outfitDescription || '...', ... }
OutfitFromReply(parsed) ==
    [outfitDescription |->
        OrElse(Get(parsed, "outfitDescription"), Str(<<"A stylish outfit suggestion">>)),
     itemIds |-> OrElse(Get(parsed, "itemIds"), Arr(<<>>)),
     missingItems |-> OrElse(Get(parsed, "missingItems"), Arr(<<>>)),
     weatherWarnings |-> OrElse(Get(parsed, "weatherWarnings"), Arr(<<>>)),
     alternativeOutfits |-> OrElse(Get(parsed, "alternativeOutfits"), Arr(<<>>))]

FallbackDescription ==
    Str(<<"A stylish outfit suggestion based on your preferences and available items.">>)

\* items.slice(0, n)
Slice(items, n) == SubSeq(items, 1, IF Len(items) < n THEN Len(items) ELSE n)

\* Fallback response
OutfitFallbackWholeCatalog(input) ==
    [outfitDescription |-> FallbackDescription,
     itemIds |->
        IF input.closetItems.given
        THEN Arr([i \in 1..Len(input.closetItems.items) |->
                    Str(<<input.closetItems.items[i].id>>)])
        ELSE Arr(<<>>),
     missingItems |-> Arr(<<>>),
     weatherWarnings |-> Arr(<<>>),
     alternativeOutfits |-> Arr(<<>>)]
OutfitFallback(input) ==
    [outfitDescription |-> FallbackDescription,
     itemIds |->
        IF input.closetItems.given
        THEN Arr([i \in 1..Len(Slice(input.closetItems.items, 2)) |->
                    Str(<<Slice(input.closetItems.items, 2)[i].id>>)])
        ELSE Arr(<<>>),
     missingItems |-> Arr(<<>>),
     weatherWarnings |-> Arr(<<>>),
     alternativeOutfits |-> Arr(<<>>)]

GoInit ==
    /\ goPc = "start"
    /\ goEnvKey \in BOOLEAN
    /\ goInput \in GoInputs
    /\ goWeather = "null"
    /\ goText = <<>>
    /\ goNet = NoGoNet
    /\ goError = "none"
    /\ goOutcome = "pending"
    /\ goResult = NoGoResult

\* generateOutfitIdea touches no state of the other workflows.
GoFrame == UNCHANGED <<rbVars, tagVars, upVars, pgVars>>

\* An error thrown outside every try block rejects the promise the caller
\* awaits.
GoRaise(msg) ==
    /\ goError' = msg
    /\ goOutcome' = "raised"
    /\ goPc' = "done"

\* generateOutfitIdea: if (!process.env.GEMINI_API_KEY) throw; else the flow
GoCheckKeyNotChecked ==
    /\ goPc = "start"
    /\ GoFrame
    /\ goPc' = "weather"
    /\ UNCHANGED <<goError, goOutcome>>
    /\ UNCHANGED <<goEnvKey, goInput, goWeather, goText, goNet, goResult>>
GoCheckKey ==
    /\ goPc = "start"
    /\ GoFrame
    /\ IF ~goEnvKey
       THEN GoRaise("No Gemini API key found.")
       ELSE goPc' = "weather" /\ UNCHANGED <<goError, goOutcome>>
    /\ UNCHANGED <<goEnvKey, goInput, goWeather, goText, goNet, goResult>>

\* let weatherData = null; if (input.latitude && input.longitude) { try {
\* weatherData = await fetchWeather(...) } catch { console.error } }
GoWeather ==
    /\ goPc = "weather"
    /\ GoFrame
    /\ IF HasCoordinates(goInput)
       THEN /\ goNet' = [goNet EXCEPT !.weather = @ + 1]
            /\ \E fetched \in BOOLEAN :
                 goWeather' = IF fetched THEN "Sunny, 22C" ELSE "null"
       ELSE UNCHANGED <<goNet, goWeather>>
    /\ goPc' = "request"
    /\ UNCHANGED <<goEnvKey, goInput, goText, goError, goOutcome, goResult>>

\* const result = await model.generateContent(prompt); result.response;
\* response.text(): outside any try block
GoRequest ==
    /\ goPc = "request"
    /\ GoFrame
    /\ goNet' = [goNet EXCEPT !.model = @ + 1]
    /\ \/ /\ GoRaise("request failed")
          /\ UNCHANGED goText
       \/ \E text \in OutfitReplies :
            /\ goText' = text
            /\ goPc' = "parse"
            /\ UNCHANGED <<goError, goOutcome>>
    /\ UNCHANGED <<goEnvKey, goInput, goWeather, goResult>>

\* try { match; if (jsonMatch) { JSON.parse; return {...} } } catch { log }
\* return the fallback response
GoParse ==
    /\ goPc = "parse"
    /\ GoFrame
    /\ LET jsonMatch == JsonMatch(goText)
       IN  IF jsonMatch # <<>> /\ JsonParses(jsonMatch)
           THEN /\ goResult' = OutfitFromReply(JsonParse(jsonMatch))
                /\ goError' = goError
           ELSE /\ goResult' = OutfitFallback(goInput)
                /\ goError' = IF jsonMatch # <<>>
                              THEN "Failed to parse Gemini response"
                              ELSE goError
    /\ goOutcome' = "returned"
    /\ goPc' = "done"
    /\ UNCHANGED <<goEnvKey, goInput, goWeather, goText, goNet>>

NextOutfit ==
    \/ GoCheckKey
    \/ GoWeather
    \/ GoRequest
    \/ GoParse

InitOutfit == RbIdle /\ TagIdle /\ GoInit /\ UpIdle /\ PgIdle
SpecOutfit == InitOutfit /\ [][NextOutfit]_vars

-----------------------------------------------------------------------------
(* Properties of generateOutfitIdea *)

GoDone == goPc = "done"
\* The model answered (its request did not throw) and the call has ended.
GoAnswered == GoDone /\ goNet.model = 1 /\ goError # "request failed"
\* The identifiers of the first min(2, n) items of the catalog, in its order.
FirstTwoIds(closetItems) ==
    LET n == Len(closetItems.items)
        k == IF n < 2 THEN n ELSE 2
    IN  [i \in 1..k |-> Str(<<closetItems.items[i].id>>)]

\* C8: when the reply of the model holds no JSON object, the suggestion is
\* the deterministic fallback: the fixed description, the identifiers of the
\* first min(2, n) catalog items in catalog order (none without a catalog),
\* and empty missingItems, weatherWarnings and alternativeOutfits.
C8_NoJsonGivesFallback ==
    GoAnswered /\ NoJsonObject(goText) =>
        /\ goOutcome = "returned"
        /\ goResult.outfitDescription = FallbackDescription
        /\ goResult.itemIds =
              Arr(IF goInput.closetItems.given
                  THEN FirstTwoIds(goInput.closetItems) ELSE <<>>)
        /\ goResult.missingItems = Arr(<<>>)
        /\ goResult.weatherWarnings = Arr(<<>>)
        /\ goResult.alternativeOutfits = Arr(<<>>)

\* A catalog of three items and a reply of prose only: the first two ids.
C8_Witness ==
    /\ GoAnswered
    /\ goText = <<Prose>>
    /\ goInput.closetItems =
          Catalog(<<ClothingItem("c"), ClothingItem("a"), ClothingItem("b")>>)
    /\ goResult.itemIds = Arr(<<Str(<<"c">>), Str(<<"a">>)>>)

\* C9: with an empty catalog, or none, the itemIds of the returned
\* suggestion is empty whatever the model replied.
C9_EmptyCatalogNoItemIds ==
    GoDone /\ goOutcome = "returned" /\ goInput.closetItems.items = <<>> =>
        goResult.itemIds = Arr(<<>>)

\* C10: with the credential present, when the model request throws or its
\* reply cannot be parsed, the fallback suggestion is returned and no error
\* reaches the caller.
C10_ModelErrorGivesFallback ==
    GoDone /\ goEnvKey
      /\ (goError = "request failed" \/ (GoAnswered /\ NoJsonObject(goText))) =>
        /\ goOutcome = "returned"
        /\ goResult = OutfitFallback(goInput)

\* C11: without the model credential generateOutfitIdea raises to its caller
\* and returns no suggestion, and it does so before any weather lookup or
\* model request is issued.
C11_MissingKeyRaisesBeforeRequests ==
    ~goEnvKey /\ goPc \notin {"idle", "start"} =>
        /\ GoDone
        /\ goOutcome = "raised"
        /\ goError = "No Gemini API key found."
        /\ goResult = NoGoResult
        /\ goNet = NoGoNet

\* A call without the credential, with coordinates and a catalog, ended by
\* the error.
C11_Witness ==
    /\ GoDone
    /\ ~goEnvKey
    /\ HasCoordinates(goInput)
    /\ Len(goInput.closetItems.items) = 2
    /\ goOutcome = "raised"
    /\ goNet = NoGoNet

\* The strings an array holds; none for a value that is not an array.
IdsOf(v) == IF IsArray(v) THEN { v.a[i] : i \in 1..Len(v.a) } ELSE {}
\* The identifiers of the catalog snapshot that was sent.
CatalogIds(input) ==
    { Str(<<input.closetItems.items[i].id>>) : i \in 1..Len(input.closetItems.items) }
\* The entries of alternativeOutfits.
Alternatives(result) ==
    IF IsArray(result.alternativeOutfits)
    THEN { result.alternativeOutfits.a[i] : i \in 1..Len(result.alternativeOutfits.a) }
    ELSE {}

\* C12: every identifier in the itemIds of the returned suggestion, and in
\* the itemIds of each of its alternativeOutfits, is the identifier of an item
\* of the catalog snapshot sent with the request.
C12_ItemIdsWithinCatalog ==
    GoDone /\ goOutcome = "returned" =>
        /\ IdsOf(goResult.itemIds) \subseteq CatalogIds(goInput)
        /\ \A alt \in Alternatives(goResult) :
              IdsOf(Get(alt, "itemIds")) \subseteq CatalogIds(goInput)

\* The weather lookup was issued and threw: weatherData is still null.
WeatherLookupFailed == goNet.weather = 1 /\ goWeather = "null"

\* C13: when the weather lookup fails the call goes on with the weather
\* unavailable, sends the model request and returns a suggestion; no error
\* is the outcome of the call.
C13_WeatherFailureSwallowed ==
    GoDone /\ WeatherLookupFailed =>
        /\ goNet.model = 1
        /\ goOutcome = "returned"

\* Both coordinates are part of the input, whatever their values.
CoordinatesSupplied(input) == input.latitude.given /\ input.longitude.given
\* The call ran past the weather step of the flow.
PastWeather == goEnvKey /\ goPc \in {"request", "parse", "done"}

\* C23: a call given both a latitude and a longitude performs the weather
\* lookup, for every value of the two, a latitude or longitude of 0 included.
C23_LookupForEveryCoordinate ==
    PastWeather /\ CoordinatesSupplied(goInput) => goNet.weather = 1

-----------------------------------------------------------------------------
(* The three workflows, one call of any of them *)

InitWorkflows == InitRemoveBackground \/ InitTag \/ InitOutfit

NextWorkflows ==
    \/ RbCheckToken
    \/ RbUpload
    \/ RbSubmit
    \/ RbPoll
    \/ RbSleep
    \/ RbAfterLoop
    \/ RbDownload
    \/ RbCatch
    \/ TagCheckKey
    \/ TagRequest
    \/ TagParse
    \/ TagCatch
    \/ GoCheckKey
    \/ GoWeather
    \/ GoRequest
    \/ GoParse

SpecWorkflows == InitWorkflows /\ [][NextWorkflows]_vars

\* The workflow was called and ran past the test of its credential.
RbCalled == rbPc \notin {"idle", "start"}
TagCalled == tagPc \notin {"idle", "start"}
GoCalled == goPc \notin {"idle", "start"}

\* C22: a workflow called without its credential (REPLICATE_API_TOKEN for
\* removeBackground, GEMINI_API_KEY for tagClothingItem and
\* generateOutfitIdea) issues none of its network requests: no storage
\* upload, job submission, status request or download; no model request; no
\* weather lookup.
C22_NoRequestWithoutCredential ==
    /\ RbCalled /\ ~rbEnvToken => rbNet = NoNet
    /\ TagCalled /\ ~tagEnvKey => tagNet = 0
    /\ GoCalled /\ ~goEnvKey => goNet = NoGoNet

\* removeBackground ended without its token: it returned its input and sent
\* nothing.
C22_Witness ==
    /\ RbDone
    /\ ~rbEnvToken
    /\ rbError = "REPLICATE_API_TOKEN is not set in the environment."
    /\ rbResult = rbInput
    /\ rbNet = NoNet

-----------------------------------------------------------------------------
(* UserPreferencesProvider *)

\* Most events the provider is handed: the runs of its effect (the mount and
\* the changes of identity) and the calls of updateGender and
\* updatePreferences, together.
MaxEvents == 4
\* Whether one more run or call is within the bound.
MoreEvents == upRuns + Len(upCalls) < MaxEvents

\* Arguments of updateGender.
Genders == { <<"male">> }
\* Arguments of updatePreferences: one field, two fields.
Partials ==
    { Preferences(Missing, <<"casual">>, Missing, Missing, Missing),
      Preferences(Missing, Missing, Missing, <<"navy">>, <<"work">>) }

\* JSON.stringify(preferences): a member for every field that is defined
JsonStringify(p) ==
    [kind |-> "json",
     members |-> { <<f, p[f]>> : f \in { g \in DOMAIN p : p[g] # Unset } }]
\* JSON.parse(storedPreferences).<key>
StoredField(stored, key) ==
    IF \E m \in stored.members : m[1] = key
    THEN (CHOOSE m \in stored.members : m[1] = key)[2]
    ELSE Unset
\* JSON.parse(storedPreferences), for a text it accepts
JsonParsePreferences(stored) ==
    Preferences(StoredField(stored, "gender"), StoredField(stored, "stylePreferences"),
                StoredField(stored, "sizePreferences"), StoredField(stored, "colorPreferences"),
                StoredField(stored, "occasionPreferences"))
\* Text under 'userPreferences' that JSON.parse rejects.
CorruptStored == [kind |-> "corrupt", members |-> {}]

\* { ...preferences, ...newPreferences }
Spread(base, partial) ==
    Preferences(IF partial.gender = Missing THEN base.gender ELSE partial.gender,
                IF partial.stylePreferences = Missing
                THEN base.stylePreferences ELSE partial.stylePreferences,
                IF partial.sizePreferences = Missing
                THEN base.sizePreferences ELSE partial.sizePreferences,
                IF partial.colorPreferences = Missing
                THEN base.colorPreferences ELSE partial.colorPreferences,
                IF partial.occasionPreferences = Missing
                THEN base.occasionPreferences ELSE partial.occasionPreferences)

\* setDoc(ref, data) replaces the document; setDoc(ref, data, { merge: true })
\* overwrites the fields data defines and keeps the others.
SetDoc(doc, data, merge) ==
    IF merge /\ doc.exists
    THEN Doc(Preferences(
            IF data.gender = Unset THEN doc.data.gender ELSE data.gender,
            IF data.stylePreferences = Unset
            THEN doc.data.stylePreferences ELSE data.stylePreferences,
            IF data.sizePreferences = Unset
            THEN doc.data.sizePreferences ELSE data.sizePreferences,
            IF data.colorPreferences = Unset
            THEN doc.data.colorPreferences ELSE data.colorPreferences,
            IF data.occasionPreferences = Unset
            THEN doc.data.occasionPreferences ELSE data.occasionPreferences))
    ELSE Doc(data)

\* A snapshot raised for a listener: the document as it was then.
Snapshot(sub, doc) == [sub |-> sub, doc |-> doc]
\* A setDoc call in flight; call is the updateGender or updatePreferences
\* call that awaits it, 0 when nothing awaits it.
Write(uid, data, merge, call) == [uid |-> uid, data |-> data, merge |-> merge, call |-> call]
\* A call of updateGender or updatePreferences: "awaiting", "returned" (its
\* promise resolved) or "raised" (it rejected).
Call(op, status) == [op |-> op, status |-> status]

\* The documents of the accounts when the provider mounts: u1 has saved
\* preferences before, u2 never has.
StoredDocs ==
    [u \in Users |-> IF u = "u1"
                     THEN Doc(Preferences(<<"female">>, <<"boho">>, <<>>, <<>>, <<>>))
                     ELSE NoDoc]
\* What localStorage may hold when the provider mounts.
StoredTexts ==
    { NoStored, CorruptStored,
      JsonStringify(Preferences(<<"male">>, <<>>, <<>>, <<"black">>, <<>>)) }

\* useState(defaultPreferences), useState(true); the first render finds
\* useAuth() still resolving the identity.
UpInit ==
    /\ upUser = NoUser
    /\ upAuthLoading = TRUE
    /\ upDb \in BOOLEAN
    /\ upPreferences = defaultPreferences
    /\ upRendered = defaultPreferences
    /\ upLoading = TRUE
    /\ upSubs = {}
    /\ upCleanup = NoSub
    /\ upSnaps = <<>>
    /\ upRemote = StoredDocs
    /\ upLocal \in StoredTexts
    /\ upWrites = <<>>
    /\ upCalls = <<>>
    /\ upLog = {}
    /\ upRuns = 0

\* The provider touches no state of the workflows.
UpFrame == UNCHANGED <<rbVars, tagVars, goVars, pgVars>>

\* return () => { unsubscribe(); }: the listeners left once the cleanup of
\* the previous effect has run
UnsubscribeNothing(subs, sub) == subs
Unsubscribe(subs, sub) == subs \ {sub}

\* Snapshots of detached listeners are not delivered.
Undelivered(snaps, subs) == SelectSeq(snaps, LAMBDA e : e.sub \in subs)

\* try { getItem; setPreferences(stored ? JSON.parse(stored) : default) }
\* catch { console.error; setPreferences(default) }: the preferences it sets
\* and what the console shows.
LoadStoredNoCatch(stored, getThrows, current) ==
    IF getThrows \/ stored.kind = "corrupt"
    THEN [preferences |-> current, logged |-> {"Uncaught"}]
    ELSE [preferences |-> IF stored.kind = "missing"
                          THEN defaultPreferences ELSE JsonParsePreferences(stored),
          logged |-> {}]
LoadStored(stored, getThrows, current) ==
    IF getThrows \/ stored.kind = "corrupt"
    THEN [preferences |-> defaultPreferences,
          logged |-> {"Failed to load preferences from localStorage"}]
    ELSE [preferences |-> IF stored.kind = "missing"
                          THEN defaultPreferences ELSE JsonParsePreferences(stored),
          logged |-> {}]

\* useEffect(..., [user, authLoading]): the cleanup of the previous run, then
\* the body, for the values of useAuth() this render brought.
UpEffect ==
    /\ MoreEvents
    /\ UpFrame
    /\ \E user \in Users \cup {NoUser}, authLoading \in BOOLEAN :
         /\ IF upRuns = 0
            THEN user = upUser /\ authLoading = upAuthLoading
            ELSE <<user, authLoading>> # <<upUser, upAuthLoading>>
         /\ upUser' = user
         /\ upAuthLoading' = authLoading
         /\ LET attached == Unsubscribe(upSubs, upCleanup)
                sub == [uid |-> user, run |-> upRuns + 1]
            IN  IF authLoading
                THEN /\ upSubs' = attached
                     /\ upSnaps' = Undelivered(upSnaps, attached)
                     /\ upCleanup' = NoSub
                     /\ UNCHANGED <<upPreferences, upLoading, upLog>>
                ELSE IF user # NoUser /\ upDb
                THEN /\ upLoading' = TRUE
                     /\ upSubs' = attached \cup {sub}
                     /\ upSnaps' = Append(Undelivered(upSnaps, attached),
                                          Snapshot(sub, upRemote[user]))
                     /\ upCleanup' = sub
                     /\ UNCHANGED <<upPreferences, upLog>>
                ELSE \E getThrows \in BOOLEAN :
                       LET loaded == LoadStored(upLocal, getThrows, upPreferences)
                       IN  /\ upPreferences' = loaded.preferences
                           /\ upLog' = upLog \cup loaded.logged
                           /\ upLoading' = FALSE
                           /\ upSubs' = attached
                           /\ upSnaps' = Undelivered(upSnaps, attached)
                           /\ upCleanup' = NoSub
    /\ upRuns' = upRuns + 1
    /\ UNCHANGED <<upDb, upRendered, upRemote, upLocal, upWrites, upCalls>>

\* A render: updateGender and updatePreferences are made anew around the
\* current preferences (useCallback(..., [preferences, user])).
UpRender ==
    /\ upRuns > 0
    /\ upRendered # upPreferences
    /\ UpFrame
    /\ upRendered' = upPreferences
    /\ UNCHANGED <<upUser, upAuthLoading, upDb, upPreferences, upLoading, upSubs,
                   upCleanup, upSnaps, upRemote, upLocal, upWrites, upCalls,
                   upLog, upRuns>>

\* if (user && db) { await setDoc(preferencesRef, data, { merge: true }) }
\* else { localStorage.setItem('userPreferences', JSON.stringify(data)) }
PersistLocalToo(op, data) ==
    IF upUser # NoUser /\ upDb
    THEN /\ upWrites' = Append(upWrites, Write(upUser, data, TRUE, Len(upCalls) + 1))
         /\ upCalls' = Append(upCalls, Call(op, "awaiting"))
         /\ upLocal' = JsonStringify(data)
    ELSE \E setThrows \in BOOLEAN :
           /\ upCalls' = Append(upCalls,
                  Call(op, IF setThrows THEN "raised" ELSE "returned"))
           /\ upLocal' = IF setThrows THEN upLocal ELSE JsonStringify(data)
           /\ UNCHANGED upWrites
Persist(op, data) ==
    IF upUser # NoUser /\ upDb
    THEN /\ upWrites' = Append(upWrites, Write(upUser, data, TRUE, Len(upCalls) + 1))
         /\ upCalls' = Append(upCalls, Call(op, "awaiting"))
         /\ UNCHANGED upLocal
    ELSE \E setThrows \in BOOLEAN :
           /\ upCalls' = Append(upCalls,
                  Call(op, IF setThrows THEN "raised" ELSE "returned"))
           /\ upLocal' = IF setThrows THEN upLocal ELSE JsonStringify(data)
           /\ UNCHANGED upWrites

\* updateGender: const newPreferences = { ...preferences, gender };
\* setPreferences(newPreferences); then the write
UpdateGenderNotOptimistic ==
    /\ upRuns > 0
    /\ MoreEvents
    /\ UpFrame
    /\ \E gender \in Genders :
         LET newPreferences == [upRendered EXCEPT !.gender = gender]
         IN  /\ UNCHANGED upPreferences
             /\ Persist("updateGender", newPreferences)
    /\ UNCHANGED <<upUser, upAuthLoading, upDb, upRendered, upLoading, upSubs,
                   upCleanup, upSnaps, upRemote, upLog, upRuns>>
UpdateGender ==
    /\ upRuns > 0
    /\ MoreEvents
    /\ UpFrame
    /\ \E gender \in Genders :
         LET newPreferences == [upRendered EXCEPT !.gender = gender]
         IN  /\ upPreferences' = newPreferences
             /\ Persist("updateGender", newPreferences)
    /\ UNCHANGED <<upUser, upAuthLoading, upDb, upRendered, upLoading, upSubs,
                   upCleanup, upSnaps, upRemote, upLog, upRuns>>

\* updatePreferences: const updatedPreferences = { ...preferences,
\* ...newPreferences }; setPreferences(updatedPreferences); then the write
UpdatePreferences ==
    /\ upRuns > 0
    /\ MoreEvents
    /\ UpFrame
    /\ \E newPreferences \in Partials :
         LET updatedPreferences == Spread(upRendered, newPreferences)
         IN  /\ upPreferences' = updatedPreferences
             /\ Persist("updatePreferences", updatedPreferences)
    /\ UNCHANGED <<upUser, upAuthLoading, upDb, upRendered, upLoading, upSubs,
                   upCleanup, upSnaps, upRemote, upLog, upRuns>>

\* The calls once the write of call has settled: the awaited promise
\* resolves or rejects, and with it the promise of the call (no try/catch
\* stands around the await).
Settled(calls, call, status) ==
    IF call = 0 THEN calls ELSE [calls EXCEPT ![call].status = status]

RECURSIVE SnapshotsFor(_, _)
\* One snapshot of the document for each of the listeners.
SnapshotsFor(subs, doc) ==
    IF subs = {} THEN <<>>
    ELSE LET sub == CHOOSE x \in subs : TRUE
         IN  <<Snapshot(sub, doc)>> \o SnapshotsFor(subs \ {sub}, doc)

\* The store accepts the oldest write: the document changes and its
\* listeners are handed a snapshot.
UpWriteCommitted ==
    /\ upWrites # <<>>
    /\ UpFrame
    /\ LET write == Head(upWrites)
           doc == SetDoc(upRemote[write.uid], write.data, write.merge)
       IN  /\ upRemote' = [upRemote EXCEPT ![write.uid] = doc]
           /\ upSnaps' = upSnaps \o
                 SnapshotsFor({ sub \in upSubs : sub.uid = write.uid }, doc)
           /\ upCalls' = Settled(upCalls, write.call, "returned")
    /\ upWrites' = Tail(upWrites)
    /\ UNCHANGED <<upUser, upAuthLoading, upDb, upPreferences, upRendered,
                   upLoading, upSubs, upCleanup, upLocal, upLog, upRuns>>

\* The store rejects the oldest write.
UpWriteRejected ==
    /\ upWrites # <<>>
    /\ UpFrame
    /\ upCalls' = Settled(upCalls, Head(upWrites).call, "raised")
    /\ upWrites' = Tail(upWrites)
    /\ UNCHANGED <<upUser, upAuthLoading, upDb, upPreferences, upRendered,
                   upLoading, upSubs, upCleanup, upSnaps, upRemote, upLocal,
                   upLog, upRuns>>

\* The writes the snapshot callback issues: none for a document that
\* exists, setDoc(preferencesRef, defaultPreferences) for one that does not.
SnapshotWritesNothing(snapshot) == <<>>
SnapshotWrites(snapshot) ==
    IF snapshot.doc.exists THEN <<>>
    ELSE <<Write(snapshot.sub.uid, defaultPreferences, FALSE, 0)>>

\* onSnapshot(preferencesRef, (doc) => { ... })
UpSnapshotKeepsView ==
    /\ upSnaps # <<>>
    /\ UpFrame
    /\ LET snapshot == Head(upSnaps)
       IN  /\ upPreferences' = IF snapshot.doc.exists
                               THEN upPreferences ELSE defaultPreferences
           /\ upWrites' = upWrites \o SnapshotWrites(snapshot)
    /\ upLoading' = FALSE
    /\ upSnaps' = Tail(upSnaps)
    /\ UNCHANGED <<upUser, upAuthLoading, upDb, upRendered, upSubs, upCleanup,
                   upRemote, upLocal, upCalls, upLog, upRuns>>
UpSnapshot ==
    /\ upSnaps # <<>>
    /\ UpFrame
    /\ LET snapshot == Head(upSnaps)
       IN  /\ upPreferences' = IF snapshot.doc.exists
                               THEN snapshot.doc.data ELSE defaultPreferences
           /\ upWrites' = upWrites \o SnapshotWrites(snapshot)
    /\ upLoading' = FALSE
    /\ upSnaps' = Tail(upSnaps)
    /\ UNCHANGED <<upUser, upAuthLoading, upDb, upRendered, upSubs, upCleanup,
                   upRemote, upLocal, upCalls, upLog, upRuns>>

\* onSnapshot(..., (error) => { console.error(...); setLoading(false) }): the
\* listener fails and is gone.
UpSnapshotError ==
    /\ UpFrame
    /\ \E sub \in upSubs :
         /\ upSubs' = upSubs \ {sub}
         /\ upSnaps' = Undelivered(upSnaps, upSubs \ {sub})
    /\ upLog' = upLog \cup {"Error listening to preferences:"}
    /\ upLoading' = FALSE
    /\ UNCHANGED <<upUser, upAuthLoading, upDb, upPreferences, upRendered,
                   upCleanup, upRemote, upLocal, upWrites, upCalls, upRuns>>

NextPreferences ==
    \/ UpEffect
    \/ UpRender
    \/ UpdateGender
    \/ UpdatePreferences
    \/ UpWriteCommitted
    \/ UpWriteRejected
    \/ UpSnapshot
    \/ UpSnapshotError

InitPreferences == RbIdle /\ TagIdle /\ GoIdle /\ UpInit /\ PgIdle
SpecPreferences == InitPreferences /\ [][NextPreferences]_vars

-----------------------------------------------------------------------------
(* Properties of UserPreferencesProvider *)

Last(seq) == seq[Len(seq)]
\* A step that is a call of updateGender or updatePreferences.
CallStep == Len(upCalls') = Len(upCalls) + 1
\* The objects a call may compute from the preferences it was made around.
NewValues(op) ==
    IF op = "updateGender"
    THEN { [upRendered EXCEPT !.gender = gender] : gender \in Genders }
    ELSE { Spread(upRendered, partial) : partial \in Partials }
\* A step in which the store rejects the write a call awaits.
RejectStep ==
    \E call \in 1..Len(upCalls) :
        upCalls[call].status = "awaiting" /\ upCalls'[call].status = "raised"

\* C14: updateGender and updatePreferences are optimistic.  When the write
\* of a call is issued (setDoc is in flight, or localStorage.setItem has
\* stored or thrown) the view already holds the new object, which is the
\* object written; and the step in which the store rejects the write leaves
\* the view as it is.
C14_OptimisticUpdate ==
    [][ /\ CallStep =>
            /\ upPreferences' \in NewValues(Last(upCalls').op)
            /\ Last(upCalls').status = "awaiting" =>
                  /\ Len(upWrites') = Len(upWrites) + 1
                  /\ Last(upWrites').data = upPreferences'
            /\ Last(upCalls').status = "returned" =>
                  upLocal' = JsonStringify(upPreferences')
        /\ RejectStep => upPreferences' = upPreferences ]_vars

\* u1 chose 'male' over the stored 'female'; the store rejected the write and
\* the view still says 'male'.
C14_Witness ==
    /\ upUser = "u1" /\ upDb
    /\ upCalls = <<Call("updateGender", "raised")>>
    /\ upWrites = <<>>
    /\ upPreferences.gender = <<"male">>
    /\ upPreferences.stylePreferences = <<"boho">>
    /\ upRemote["u1"].data.gender = <<"female">>

\* C15: a persistence failure during updateGender or updatePreferences (a
\* rejected remote write, a throwing localStorage) is caught and logged: no
\* call ends by raising to its caller.
C15_PersistenceFailureCaught ==
    \A call \in 1..Len(upCalls) : upCalls[call].status # "raised"

\* C16: at most one listener is attached at any time, it listens to the
\* document of the current user, and none is attached while the identity is
\* a guest.
C16_OneSubscription ==
    /\ Cardinality(upSubs) <= 1
    /\ \A sub \in upSubs : sub.uid = upUser
    /\ upUser = NoUser => upSubs = {}

\* The listener of u2, attached by the third run of the effect, after the
\* one of u1 had delivered the preferences of u1.
C16_Witness ==
    /\ upUser = "u2"
    /\ upSubs = {[uid |-> "u2", run |-> 3]}
    /\ upPreferences.gender = <<"female">>

\* A run of the effect for a guest.
GuestEffectStep ==
    upRuns' = upRuns + 1 /\ ~upAuthLoading' /\ upUser' = NoUser

\* C17: when the effect runs for a guest whose stored preferences are
\* missing or do not parse, the view becomes the default object, loading
\* becomes false and no error leaves the effect.
C17_GuestDefaults ==
    [][ GuestEffectStep /\ upLocal.kind \in {"missing", "corrupt"} =>
            /\ upPreferences' = defaultPreferences
            /\ upLoading' = FALSE
            /\ "Uncaught" \notin upLog' ]_vars

\* A guest after u1 signed out, with text in localStorage that does not
\* parse: the view went from the preferences of u1 to the default object.
C17_Witness ==
    /\ upUser = NoUser /\ ~upAuthLoading
    /\ upRuns = 3
    /\ upLocal = CorruptStored
    /\ upRemote["u1"].exists
    /\ upPreferences = defaultPreferences
    /\ ~upLoading
    /\ "Failed to load preferences from localStorage" \in upLog

\* The delivery of a snapshot to its listener.
SnapshotStep ==
    /\ upSnaps # <<>>
    /\ upSnaps' = Tail(upSnaps)
    /\ upRuns' = upRuns
    /\ upSubs' = upSubs

\* C18: when the snapshot handed to the listener of a signed-in user says
\* the preferences document does not exist, a write of the default object
\* (replacing, not merging) to that user's document is issued and the view
\* becomes the default object.
C18_MissingDocCreated ==
    [][ SnapshotStep /\ ~Head(upSnaps).doc.exists =>
            /\ upWrites' = Append(upWrites,
                  Write(Head(upSnaps).sub.uid, defaultPreferences, FALSE, 0))
            /\ upPreferences' = defaultPreferences
            /\ upLoading' = FALSE ]_vars

\* u2, who had no document, now has the default one, and the view shows it.
C18_Witness ==
    /\ upUser = "u2"
    /\ upRemote["u2"] = Doc(defaultPreferences)
    /\ upPreferences = defaultPreferences
    /\ ~upLoading
    /\ upWrites = <<>>

\* The keys a Partial<UserPreferences> holds.
FieldsOf(partial) == { f \in DOMAIN partial : partial[f] # Missing }
\* The arguments a call may have been given, as partial objects.
Arguments(op) ==
    IF op = "updateGender"
    THEN { Preferences(gender, Missing, Missing, Missing, Missing) : gender \in Genders }
    ELSE Partials
\* What the call of this step handed to the store, field by field: the
\* data of its setDoc, or the text it put in localStorage.
WrittenField(f) ==
    IF Last(upCalls').status = "awaiting"
    THEN Last(upWrites').data[f]
    ELSE StoredField(upLocal', f)
\* The call of this step wrote: setDoc was called, or setItem did not throw.
Wrote == Last(upCalls').status # "raised"

\* C24: a call of updatePreferences(partial) or updateGender(gender) sets
\* the fields of its argument and leaves every other field, of the view and
\* of the value it writes, at the value the view had before the call.
C24_OnlyNamedFieldsChange ==
    [][ CallStep =>
          \E partial \in Arguments(Last(upCalls').op) :
              /\ \A f \in FieldsOf(partial) : upPreferences'[f] = partial[f]
              /\ \A f \in DOMAIN upPreferences \ FieldsOf(partial) :
                    /\ upPreferences'[f] = upPreferences[f]
                    /\ Wrote => WrittenField(f) = upPreferences[f] ]_vars

\* The identity the provider acts on: signed in when useAuth() has a user
\* and the document store is there (user && db), a guest otherwise.
SignedIn == upUser # NoUser /\ upDb

\* C25: a call of updateGender or updatePreferences writes only to the
\* store of the current identity: for a guest it puts the new object in
\* localStorage (unless setItem throws) and issues no remote write; for a
\* signed-in user it issues one remote write, to the document of that user,
\* and leaves localStorage as it is.  No call changes a document by itself.
C25_WritesMatchingStore ==
    [][ CallStep =>
          /\ upRemote' = upRemote
          /\ IF SignedIn
             THEN /\ upWrites' = Append(upWrites, Last(upWrites'))
                  /\ Last(upWrites').uid = upUser
                  /\ upLocal' = upLocal
             ELSE /\ upWrites' = upWrites
                  /\ Wrote => upLocal' = JsonStringify(upPreferences') ]_vars

\* u1 changed a preference: the write to the document of u1 is in flight and
\* the preferences the guest left in localStorage are as they were.
C25_Witness ==
    /\ upUser = "u1" /\ upDb
    /\ upCalls = <<Call("updatePreferences", "awaiting")>>
    /\ Len(upWrites) = 1
    /\ upWrites[1].uid = "u1"
    /\ upLocal = JsonStringify(Preferences(<<"male">>, <<>>, <<>>, <<"black">>, <<>>))

\* Every write that was issued has been accepted and every snapshot that was
\* raised has been delivered.
Quiescent == upWrites = <<>> /\ upSnaps = <<>>
\* No write a call awaited was rejected.
NoWriteFailed == \A call \in 1..Len(upCalls) : upCalls[call].status # "raised"

SecondCallStep ==
    /\ CallStep
    /\ ~SignedIn
    /\ upCalls = <<Call("updateGender", "returned")>>
    /\ upPreferences.gender \in Genders
    /\ upLocal = JsonStringify(upPreferences)
    /\ Last(upCalls') = Call("updatePreferences", "returned")

\* C27: two calls on disjoint fields, updateGender and then
\* updatePreferences, both take effect: when the second has returned the
\* view and the stored value hold the gender of the first and the fields of
\* the second, also when the second was called before the view re-rendered.
C27_BothMutationsTakeEffect ==
    [][ SecondCallStep =>
          /\ upPreferences'.gender = upPreferences.gender
          /\ StoredField(upLocal', "gender") = upPreferences.gender
          /\ \E partial \in Partials : \A f \in FieldsOf(partial) :
                /\ upPreferences'[f] = partial[f]
                /\ StoredField(upLocal', f) = partial[f] ]_vars

\* What the store of the current identity holds for it: the data of its
\* document, the object parsed from localStorage; nothing when there is none.
StoredPreferences ==
    IF SignedIn
    THEN IF upRemote[upUser].exists THEN {upRemote[upUser].data} ELSE {}
    ELSE IF upLocal.kind = "json" THEN {JsonParsePreferences(upLocal)} ELSE {}

\* C28: once the effect has run for an identity and loading is false, the
\* view holds the stored preferences of that identity or the default object
\* (no mutation having been made), never what an earlier identity left in
\* it; also after the listener reported an error.
C28_NoPreviousIdentityPreferences ==
    upRuns > 0 /\ ~upAuthLoading /\ ~upLoading /\ upCalls = <<>> =>
        upPreferences \in {defaultPreferences} \cup StoredPreferences

-----------------------------------------------------------------------------
(* OutfitGeneratorPage *)

\* Most asynchronous calls of one kind the page is followed through at once.
MaxInFlight == 2
\* 'Add at least 5 items to your closet.'
MinClosetItems == 5
\* onboardingStep: 0 welcome, 1 gender, 2-6 uploads, 7 done
FirstUploadStep == 2
LastUploadStep == 6
DoneStep == 7

\* The files a user picks; the page treats every file alike.
Files == {"f1"}
\* Suggestions generateOutfitIdea hands the page: identifiers of catalog
\* items and one no item has ("zz"), alternatives with and without itemIds.
Suggestions ==
    { OutfitIdea(IdArray(<<"a", "zz">>),
                 <<Outfit(IdArray(<<"b", "e">>)), Outfit(NoIdArray)>>),
      OutfitIdea(IdArray(<<"c">>), <<>>) }
\* A run of handleOnboardingSubmit: the call it awaits and the image it holds
\* (onboardingPreview, then newPreview).
Pipeline(pc, image) == [pc |-> pc, image |-> image]
\* seq without its i-th element
Without(seq, i) == SubSeq(seq, 1, i - 1) \o SubSeq(seq, i + 1, Len(seq))

\* The page touches no state of the workflows or of the provider.
PgFrame == UNCHANGED <<rbVars, tagVars, goVars, upVars>>
generateVars == <<pgLoading, pgError, pgOutfitIdea, pgCurrentOutfitIndex,
                  pgInspirationItems, pgGenerating>>
locationVars == <<pgLocation, pgLocationError>>
uploadVars == <<pgOnboardingPreview, pgOnboardingLoading, pgOnboardingError,
                pgResizing, pgPipelines>>
dialogVars == <<pgShowOnboarding, pgOnboardingStep, pgOnboardingComplete, pgGender>>

\* disabled={loading || (!location && !locationError)}
GenerateDisabled == pgLoading \/ (pgLocation = "null" /\ ~pgLocationError)
\* {outfitIdea && ( ... <Button onClick={handleGenerate} disabled={loading}>
RegenerateShown == pgOutfitIdea # NoOutfitIdea
RegenerateDisabledNever == FALSE
RegenerateDisabled == pgLoading
\* {(onboardingStep >= 2 && onboardingStep <= 6) && ( ... in the open dialog
UploadStep ==
    /\ pgShowOnboarding
    /\ pgOnboardingStep >= FirstUploadStep
    /\ pgOnboardingStep <= LastUploadStep
\* {!onboardingPreview && !onboardingLoading && ( <label ...> <Input type="file">
DropzoneShown == UploadStep /\ pgOnboardingPreview = NoImage /\ ~pgOnboardingLoading
\* {onboardingPreview && ( ... <Button onClick={resetOnboardingUploadState}>
RemoveShown == UploadStep /\ pgOnboardingPreview # NoImage
\* disabled={onboardingLoading || !onboardingPreview}
AddItemDisabled == pgOnboardingLoading \/ pgOnboardingPreview = NoImage

\* The geolocation callbacks and handleManualLocation: a position, or an
\* error message.
PgLocate ==
    /\ PgFrame
    /\ \E found \in BOOLEAN :
         IF found
         THEN pgLocation' = "set" /\ pgLocationError' = FALSE
         ELSE pgLocationError' = TRUE /\ UNCHANGED pgLocation
    /\ UNCHANGED <<generateVars, pgTestingMode, uploadVars, dialogVars, pgClosetItems>>

\* toggleTestingMode
PgToggleTestingMode ==
    /\ PgFrame
    /\ pgTestingMode' = ~pgTestingMode
    /\ UNCHANGED <<generateVars, locationVars, uploadVars, dialogVars, pgClosetItems>>

\* handleGenerate, up to its await
HandleGenerate ==
    /\ pgGenerating < MaxInFlight
    /\ IF ~pgTestingMode /\ Len(pgClosetItems) < MinClosetItems
       THEN UNCHANGED generateVars
       ELSE /\ pgError' = FALSE
            /\ pgLoading' = TRUE
            /\ pgOutfitIdea' = NoOutfitIdea
            /\ pgCurrentOutfitIndex' = 0
            /\ UNCHANGED pgInspirationItems
            /\ pgGenerating' = pgGenerating + 1
    /\ UNCHANGED <<locationVars, pgTestingMode, uploadVars, dialogVars, pgClosetItems>>

\* A click on 'Generate Outfit'
PgGenerate ==
    /\ ~GenerateDisabled
    /\ PgFrame
    /\ HandleGenerate

\* A click on 'Regenerate'
PgRegenerate ==
    /\ RegenerateShown
    /\ ~RegenerateDisabled
    /\ PgFrame
    /\ HandleGenerate

\* generateOutfitIdea returned: setOutfitIdea(result); finally setLoading(false)
PgGenerateReturned ==
    /\ pgGenerating > 0
    /\ PgFrame
    /\ \E result \in Suggestions : pgOutfitIdea' = result
    /\ pgLoading' = FALSE
    /\ pgGenerating' = pgGenerating - 1
    /\ UNCHANGED <<pgError, pgCurrentOutfitIndex, pgInspirationItems, locationVars, pgTestingMode, uploadVars, dialogVars,
                   pgClosetItems>>

\* generateOutfitIdea raised: catch setError(...); finally setLoading(false)
PgGenerateRaised ==
    /\ pgGenerating > 0
    /\ PgFrame
    /\ pgError' = TRUE
    /\ pgLoading' = FALSE
    /\ pgGenerating' = pgGenerating - 1
    /\ UNCHANGED <<pgOutfitIdea, pgCurrentOutfitIndex, pgInspirationItems,
                   locationVars, pgTestingMode, uploadVars, dialogVars,
                   pgClosetItems>>

\* The onboarding trigger effect: an empty closet, no 'onboardingComplete'
\* and no testing mode open the dialog at its first step.
PgOnboardingTrigger ==
    /\ pgClosetItems = <<>>
    /\ ~pgTestingMode
    /\ ~pgOnboardingComplete
    /\ ~(pgShowOnboarding /\ pgOnboardingStep = 0)
    /\ PgFrame
    /\ pgShowOnboarding' = TRUE
    /\ pgOnboardingStep' = 0
    /\ UNCHANGED <<generateVars, locationVars, pgTestingMode, uploadVars,
                   pgOnboardingComplete, pgGender, pgClosetItems>>

\* 'Start Setup': setOnboardingStep(1)
PgStartSetup ==
    /\ pgShowOnboarding
    /\ pgOnboardingStep = 0
    /\ PgFrame
    /\ pgOnboardingStep' = 1
    /\ UNCHANGED <<generateVars, locationVars, pgTestingMode, uploadVars,
                   pgShowOnboarding, pgOnboardingComplete, pgGender, pgClosetItems>>

\* <GenderSelection onGenderSelect={updateGender}>
PgSelectGender ==
    /\ pgShowOnboarding
    /\ pgOnboardingStep = 1
    /\ ~pgGender
    /\ PgFrame
    /\ pgGender' = TRUE
    /\ UNCHANGED <<generateVars, locationVars, pgTestingMode, uploadVars,
                   pgShowOnboarding, pgOnboardingStep, pgOnboardingComplete,
                   pgClosetItems>>

\* 'Continue': disabled={!preferences.gender}, setOnboardingStep(2)
PgContinue ==
    /\ pgShowOnboarding
    /\ pgOnboardingStep = 1
    /\ pgGender
    /\ PgFrame
    /\ pgOnboardingStep' = FirstUploadStep
    /\ UNCHANGED <<generateVars, locationVars, pgTestingMode, uploadVars,
                   pgShowOnboarding, pgOnboardingComplete, pgGender, pgClosetItems>>

\* handleOnboardingFileChange / handleDrop: processOnboardingFile up to its
\* await
PgChooseFile ==
    /\ DropzoneShown
    /\ Len(pgResizing) < MaxInFlight
    /\ PgFrame
    /\ \E file \in Files, supported \in BOOLEAN :
         IF ~supported
         THEN /\ pgOnboardingError' = TRUE
              /\ UNCHANGED <<pgOnboardingLoading, pgResizing>>
         ELSE /\ pgOnboardingError' = FALSE
              /\ pgOnboardingLoading' = TRUE
              /\ pgResizing' = Append(pgResizing, file)
    /\ UNCHANGED <<generateVars, locationVars, pgTestingMode, pgOnboardingPreview,
                   pgPipelines, dialogVars, pgClosetItems>>

\* processOnboardingFile after resizeImage: setOnboardingPreview or the
\* catch; finally setOnboardingLoading(false)
PgResized ==
    /\ PgFrame
    /\ \E i \in 1..Len(pgResizing), resized \in BOOLEAN :
         /\ IF resized
            THEN /\ pgOnboardingPreview' = Image(pgResizing[i], FALSE)
                 /\ UNCHANGED pgOnboardingError
            ELSE /\ pgOnboardingError' = TRUE
                 /\ UNCHANGED pgOnboardingPreview
         /\ pgResizing' = Without(pgResizing, i)
    /\ pgOnboardingLoading' = FALSE
    /\ UNCHANGED <<generateVars, locationVars, pgTestingMode, pgPipelines,
                   dialogVars, pgClosetItems>>

\* resetOnboardingUploadState, from the button on the preview
PgRemovePreview ==
    /\ RemoveShown
    /\ PgFrame
    /\ pgOnboardingPreview' = NoImage
    /\ pgOnboardingError' = FALSE
    /\ pgOnboardingLoading' = FALSE
    /\ UNCHANGED <<generateVars, locationVars, pgTestingMode, pgResizing,
                   pgPipelines, dialogVars, pgClosetItems>>

\* A click on 'Add Item': handleOnboardingSubmit up to its first await
PgAddItem ==
    /\ UploadStep
    /\ ~AddItemDisabled
    /\ Len(pgPipelines) < MaxInFlight
    /\ PgFrame
    /\ pgOnboardingError' = FALSE
    /\ pgOnboardingLoading' = TRUE
    /\ pgPipelines' = Append(pgPipelines,
                             Pipeline("removeBackground", pgOnboardingPreview))
    /\ UNCHANGED <<generateVars, locationVars, pgTestingMode, pgOnboardingPreview,
                   pgResizing, dialogVars, pgClosetItems>>

\* catch (e) { setOnboardingError(...) } finally { setOnboardingLoading(false) }
PipelineFailed(i) ==
    /\ pgOnboardingError' = TRUE
    /\ pgOnboardingLoading' = FALSE
    /\ pgPipelines' = Without(pgPipelines, i)
    /\ UNCHANGED <<pgOnboardingPreview, pgOnboardingStep, pgClosetItems>>

\* removeBackground settled: newPreview is the image without its background
\* or the image that was sent; then tagClothingItem is called
PgBackgroundRemoved ==
    /\ PgFrame
    /\ \E i \in 1..Len(pgPipelines) :
         /\ pgPipelines[i].pc = "removeBackground"
         /\ \E outcome \in {"cutout", "original", "raised"} :
              IF outcome = "raised"
              THEN PipelineFailed(i)
              ELSE /\ pgPipelines' = [pgPipelines EXCEPT ![i] =
                        Pipeline("tagClothingItem",
                                 IF outcome = "cutout"
                                 THEN Image(@.image.file, TRUE) ELSE @.image)]
                   /\ UNCHANGED <<pgOnboardingPreview, pgOnboardingLoading,
                                  pgOnboardingError, pgOnboardingStep, pgClosetItems>>
    /\ UNCHANGED <<generateVars, locationVars, pgTestingMode, pgResizing,
                   pgShowOnboarding, pgOnboardingComplete, pgGender>>

\* addClosetItem({ photoDataUri: newPreview, ... }) with the image before
\* its background was removed
AddedItemKeepsBackground(newPreview) ==
    [photoDataUri |-> Image(newPreview.file, FALSE)]
\* addClosetItem({ photoDataUri: newPreview, category: result.category, ... })
AddedItem(newPreview) == [photoDataUri |-> newPreview]

\* tagClothingItem settled: addClosetItem, resetOnboardingUploadState,
\* setOnboardingStep(prev => prev + 1); or the catch; finally
PgTagged ==
    /\ PgFrame
    /\ \E i \in 1..Len(pgPipelines) :
         /\ pgPipelines[i].pc = "tagClothingItem"
         /\ \E raised \in BOOLEAN :
              IF raised
              THEN PipelineFailed(i)
              ELSE /\ pgClosetItems' = Append(pgClosetItems,
                                             AddedItem(pgPipelines[i].image))
                   /\ pgOnboardingPreview' = NoImage
                   /\ pgOnboardingError' = FALSE
                   /\ pgOnboardingLoading' = FALSE
                   /\ pgOnboardingStep' = pgOnboardingStep + 1
                   /\ pgPipelines' = Without(pgPipelines, i)
    /\ UNCHANGED <<generateVars, locationVars, pgTestingMode, pgResizing,
                   pgShowOnboarding, pgOnboardingComplete, pgGender>>

\* handleOnboardingOpenChange(false)
PgCloseDialog ==
    /\ pgShowOnboarding
    /\ PgFrame
    /\ pgOnboardingComplete' =
          IF pgOnboardingStep = LastUploadStep THEN TRUE ELSE pgOnboardingComplete
    /\ pgShowOnboarding' = FALSE
    /\ UNCHANGED <<generateVars, locationVars, pgTestingMode, uploadVars,
                   pgOnboardingStep, pgGender, pgClosetItems>>

\* handleCompleteOnboarding, from the buttons of the last step
PgCompleteOnboarding ==
    /\ pgShowOnboarding
    /\ pgOnboardingStep = DoneStep
    /\ PgFrame
    /\ pgOnboardingComplete' = TRUE
    /\ pgShowOnboarding' = FALSE
    /\ UNCHANGED <<generateVars, locationVars, pgTestingMode, uploadVars,
                   pgOnboardingStep, pgGender, pgClosetItems>>

\* A closet as useCloset() loads it: n items added earlier.
LoadedCloset(n) == [i \in 1..n |-> [photoDataUri |-> Image("f1", TRUE)]]
\* The page with a closet of no item, or up to one more than it asks for.
PgInitGenerate ==
    /\ pgLoading = FALSE
    /\ pgError = FALSE
    /\ pgOutfitIdea = NoOutfitIdea
    /\ pgCurrentOutfitIndex = 0
    /\ pgInspirationItems = <<>>
    /\ pgLocation = "null"
    /\ pgLocationError = FALSE
    /\ pgTestingMode = FALSE
    /\ pgGenerating = 0
    /\ pgShowOnboarding = FALSE
    /\ pgOnboardingStep = 0
    /\ pgOnboardingPreview = NoImage
    /\ pgOnboardingLoading = FALSE
    /\ pgOnboardingError = FALSE
    /\ pgOnboardingComplete = FALSE
    /\ pgGender = FALSE
    /\ pgResizing = <<>>
    /\ pgPipelines = <<>>
    /\ pgClosetItems \in { LoadedCloset(n) : n \in 0..(MinClosetItems + 1) }

\* The outfit generator of the page.
NextGenerate ==
    \/ PgLocate
    \/ PgToggleTestingMode
    \/ PgGenerate
    \/ PgRegenerate
    \/ PgGenerateReturned
    \/ PgGenerateRaised

InitGenerate == RbIdle /\ TagIdle /\ GoIdle /\ UpIdle /\ PgInitGenerate
SpecGenerate == InitGenerate /\ [][NextGenerate]_vars

\* The onboarding dialog of the page, shown to a user with an empty closet.
NextOnboarding ==
    \/ PgOnboardingTrigger
    \/ PgStartSetup
    \/ PgSelectGender
    \/ PgContinue
    \/ PgChooseFile
    \/ PgResized
    \/ PgRemovePreview
    \/ PgAddItem
    \/ PgBackgroundRemoved
    \/ PgTagged
    \/ PgCloseDialog
    \/ PgCompleteOnboarding

InitOnboarding == RbIdle /\ TagIdle /\ GoIdle /\ UpIdle /\ PgInit
SpecOnboarding == InitOnboarding /\ [][NextOnboarding]_vars

\* Most outfits handleSaveInspiration is followed through storing.
MaxSaved == 1
\* The closet with which the page is opened here: five items, by identifier.
PageCatalog ==
    <<ClothingItem("a"), ClothingItem("b"), ClothingItem("c"), ClothingItem("d"),
      ClothingItem("e")>>
\* What closetItems.find(...) returns when no item matches.
NotFound == ClothingItem("undefined")

\* getCurrentOutfit
GetCurrentOutfit ==
    IF pgOutfitIdea.isNull THEN NoOutfit
    ELSE IF pgCurrentOutfitIndex = 0 THEN Outfit(pgOutfitIdea.itemIds)
    ELSE IF pgCurrentOutfitIndex <= Len(pgOutfitIdea.alternativeOutfits)
    THEN pgOutfitIdea.alternativeOutfits[pgCurrentOutfitIndex]
    ELSE NoOutfit

\* currentOutfit?.itemIds || []
CurrentItemIds ==
    IF GetCurrentOutfit.isNull \/ ~GetCurrentOutfit.itemIds.given
    THEN <<>> ELSE GetCurrentOutfit.itemIds.ids

\* closetItems.find(item => item.id === id)
Find(closetItems, id) ==
    IF \E i \in 1..Len(closetItems) : closetItems[i].id = id
    THEN closetItems[CHOOSE i \in 1..Len(closetItems) :
                        /\ closetItems[i].id = id
                        /\ \A j \in 1..(i - 1) : closetItems[j].id # id]
    ELSE NotFound

\* const suggestedItems = (currentOutfit?.itemIds || [])
\*   .map(id => closetItems.find(item => item.id === id)).filter(item => !!item)
SuggestedItemsUnfiltered ==
    [i \in 1..Len(CurrentItemIds) |-> ClothingItem(CurrentItemIds[i])]
SuggestedItems ==
    SelectSeq([i \in 1..Len(CurrentItemIds) |-> Find(pgClosetItems, CurrentItemIds[i])],
              LAMBDA item : item # NotFound)

\* handleTryAnotherOutfit, from the button shown with a suggestion
PgTryAnotherOutfit ==
    /\ ~pgOutfitIdea.isNull
    /\ Len(pgOutfitIdea.alternativeOutfits) > 0
    /\ PgFrame
    /\ pgCurrentOutfitIndex' =
          (pgCurrentOutfitIndex + 1) % (Len(pgOutfitIdea.alternativeOutfits) + 1)
    /\ UNCHANGED <<pgLoading, pgError, pgOutfitIdea, pgInspirationItems, pgGenerating,
                   locationVars, pgTestingMode, uploadVars, dialogVars, pgClosetItems>>

\* handleSaveInspiration, from the button shown with a suggestion:
\* addInspirationItem({ description, items: suggestedItems })
PgSaveInspiration ==
    /\ ~pgOutfitIdea.isNull
    /\ ~GetCurrentOutfit.isNull
    /\ Len(pgInspirationItems) < MaxSaved
    /\ PgFrame
    /\ pgInspirationItems' = Append(pgInspirationItems, [items |-> SuggestedItems])
    /\ UNCHANGED <<pgLoading, pgError, pgOutfitIdea, pgCurrentOutfitIndex, pgGenerating,
                   locationVars, pgTestingMode, uploadVars, dialogVars, pgClosetItems>>

\* closetItems of useCloset() changes under the page: an item is deleted.
PgClosetChanged ==
    /\ PgFrame
    /\ \E i \in 1..Len(pgClosetItems) : pgClosetItems' = Without(pgClosetItems, i)
    /\ UNCHANGED <<generateVars, locationVars, pgTestingMode, uploadVars, dialogVars>>

\* The page opened with five items in the closet and a position found.
PgInitSuggestion ==
    /\ pgLoading = FALSE
    /\ pgError = FALSE
    /\ pgOutfitIdea = NoOutfitIdea
    /\ pgCurrentOutfitIndex = 0
    /\ pgInspirationItems = <<>>
    /\ pgLocation = "set"
    /\ pgLocationError = FALSE
    /\ pgTestingMode = FALSE
    /\ pgGenerating = 0
    /\ pgShowOnboarding = FALSE
    /\ pgOnboardingStep = 0
    /\ pgOnboardingPreview = NoImage
    /\ pgOnboardingLoading = FALSE
    /\ pgOnboardingError = FALSE
    /\ pgOnboardingComplete = FALSE
    /\ pgGender = FALSE
    /\ pgResizing = <<>>
    /\ pgPipelines = <<>>
    /\ pgClosetItems = PageCatalog

\* The suggestion the page shows, while the closet changes under it.
NextSuggestion ==
    \/ PgToggleTestingMode
    \/ PgGenerate
    \/ PgRegenerate
    \/ PgGenerateReturned
    \/ PgGenerateRaised
    \/ PgTryAnotherOutfit
    \/ PgSaveInspiration
    \/ PgClosetChanged

InitSuggestion == RbIdle /\ TagIdle /\ GoIdle /\ UpIdle /\ PgInitSuggestion
SpecSuggestion == InitSuggestion /\ [][NextSuggestion]_vars

-----------------------------------------------------------------------------
(* Properties of OutfitGeneratorPage *)

\* C19: at most one generateOutfitIdea request of the page is outstanding;
\* while one is, loading is true and both controls that run handleGenerate
\* are disabled; when none is (none started yet, or the last one returned or
\* raised), loading is false.
C19_OneGenerateRequest ==
    /\ pgGenerating <= 1
    /\ pgGenerating = 1 => pgLoading /\ GenerateDisabled /\ RegenerateDisabled
    /\ pgGenerating = 0 => ~pgLoading

\* A request is outstanding, started from a closet of five items with a
\* position known.
C19_Witness ==
    /\ pgGenerating = 1
    /\ pgLoading
    /\ ~pgTestingMode
    /\ pgLocation = "set"
    /\ Len(pgClosetItems) = MinClosetItems

\* C20: at most one run of handleOnboardingSubmit is in flight at any time.
C20_OneIntakePipeline == Len(pgPipelines) <= 1

\* A run of handleOnboardingSubmit started.
SubmitStarted ==
    /\ Len(pgPipelines') = Len(pgPipelines) + 1
    /\ SubSeq(pgPipelines', 1, Len(pgPipelines)) = pgPipelines
\* Run i went from one await to the next.
SubmitMoved(i) ==
    /\ i \in 1..Len(pgPipelines)
    /\ Len(pgPipelines') = Len(pgPipelines)
    /\ pgPipelines'[i] # pgPipelines[i]
    /\ \A j \in 1..Len(pgPipelines) : j # i => pgPipelines'[j] = pgPipelines[j]
\* Run i ended, by its last statement or in its catch.
SubmitEnded(i) ==
    /\ i \in 1..Len(pgPipelines)
    /\ pgPipelines' = Without(pgPipelines, i)
\* The images removeBackground returns for the image it was sent.
Returned(sent) == {sent, Image(sent.file, TRUE)}

\* C21: a run of handleOnboardingSubmit starts by awaiting removeBackground;
\* tagClothingItem is called only by a run whose removeBackground returned,
\* with the image it returned; an item is added only by a run whose
\* tagClothingItem returned, it carries the image that was tagged and the step
\* grows by exactly one; a run that ends without adding an item (either call
\* raised) leaves the closet and the step as they were.
C21_IntakeOrder ==
    [][/\ pgPipelines' # pgPipelines =>
            \/ /\ SubmitStarted
               /\ pgPipelines'[Len(pgPipelines')].pc = "removeBackground"
               /\ UNCHANGED <<pgClosetItems, pgOnboardingStep>>
            \/ \E i \in 1..Len(pgPipelines) :
                 /\ SubmitMoved(i)
                 /\ pgPipelines[i].pc = "removeBackground"
                 /\ pgPipelines'[i].pc = "tagClothingItem"
                 /\ pgPipelines'[i].image \in Returned(pgPipelines[i].image)
                 /\ UNCHANGED <<pgClosetItems, pgOnboardingStep>>
            \/ \E i \in 1..Len(pgPipelines) :
                 /\ SubmitEnded(i)
                 /\ \/ UNCHANGED <<pgClosetItems, pgOnboardingStep>>
                    \/ /\ pgPipelines[i].pc = "tagClothingItem"
                       /\ pgClosetItems' =
                            Append(pgClosetItems,
                                   [photoDataUri |-> pgPipelines[i].image])
                       /\ pgOnboardingStep' = pgOnboardingStep + 1
       /\ pgClosetItems' # pgClosetItems => pgPipelines' # pgPipelines
      ]_vars

\* The first item was added with its background removed and the dialog moved
\* to the second upload step; nothing is in flight.
C21_Witness ==
    /\ pgClosetItems = <<[photoDataUri |-> Image("f1", TRUE)]>>
    /\ pgOnboardingStep = FirstUploadStep + 1
    /\ pgPipelines = <<>>
    /\ pgShowOnboarding

\* C30: 'onboardingComplete' is stored only once the dialog has reached its
\* last step (7), that is after five items were added; closing the dialog at
\* an earlier step does not store it.
C30_CompleteOnlyAfterLastStep ==
    pgOnboardingComplete =>
        /\ pgOnboardingStep >= DoneStep
        /\ Len(pgClosetItems) >= DoneStep - FirstUploadStep

\* The items of a list, as a set.
ItemsOf(items) == { items[i] : i \in 1..Len(items) }
\* A step of handleSaveInspiration.
SaveStep == Len(pgInspirationItems') = Len(pgInspirationItems) + 1

\* C29: the items shown as the suggested outfit are at every moment items of
\* the closet as it is then, and the items handleSaveInspiration stores are
\* items of the closet as it is when it stores them: an identifier of the
\* current outfit that no item of the closet has is shown and stored nowhere,
\* also when the closet changed after the request was sent.
C29_SuggestedItemsInCatalog ==
    [][ /\ ItemsOf(SuggestedItems') \subseteq ItemsOf(pgClosetItems')
        /\ SaveStep =>
              /\ ItemsOf(Last(pgInspirationItems').items) \subseteq ItemsOf(pgClosetItems)
              /\ Last(pgInspirationItems').items = SuggestedItems ]_vars

\* The first alternative, b and e, is shown after b was deleted from the
\* closet: it was stored as e alone.
C29_Witness ==
    /\ pgOutfitIdea \in Suggestions
    /\ pgCurrentOutfitIndex = 1
    /\ CurrentItemIds = <<"b", "e">>
    /\ ItemsOf(pgClosetItems) = ItemsOf(PageCatalog) \ {ClothingItem("b")}
    /\ SuggestedItems = <<ClothingItem("e")>>
    /\ pgInspirationItems = <<[items |-> <<ClothingItem("e")>>]>>

=============================================================================
